---- MODULE Spec2Model ----
(***************************************************************************)
(* Verification model of the unsoundness-checker rule engine:              *)
(*   - the rule catalog (RuleRegistryBuilder / RuleRegistry, rule.rs)      *)
(*   - rule selection (RuleSelection, rule.rs)                             *)
(*   - the guarded diagnostic emission (Context, context.rs)               *)
(*   - the per-file check and the project fan-out (checker/mod.rs)         *)
(*   - the check command (cli/mod.rs)                                      *)
(*                                                                         *)
(* Options are modelled as sequences: <<>> is None, <<v>> is Some(v).      *)
(***************************************************************************)
EXTENDS Integers, Sequences, FiniteSets, TLC

VARIABLES
    phase,          \* position of the program: registry, selection, check
    builder,        \* the RuleRegistryBuilder
    reg_calls,      \* history: the register_* calls made on the builder
    registry,       \* the built RuleRegistry
    selection,      \* RuleSelection.rules
    applied,        \* history: the overrides handed to the selection so far
    config_diags,   \* configuration diagnostics of from_rules_selection
    files,          \* the project's files, in the order of project.files()
    tasks,          \* one check_file task per file: its Context and position
    finished,       \* history: the tasks in the order they completed
    all_diagnostics,\* the Vec check_project returns (None while it runs)
    runs,           \* number of check_project calls made
    previous_run,   \* per file, the diagnostics of the previous call
    test_input,     \* the check command's options and project files
    test_results,   \* the check command: check_file results so far, per file
    test_diagnostics,\* the check command's diagnostics Vec (None before the end)
    exit_status     \* the check command's ExitStatus (None while it runs)

tvars == <<test_input, test_results, test_diagnostics, exit_status>>

cvars == <<files, tasks, finished, all_diagnostics, runs, previous_run,
           test_input, test_results, test_diagnostics, exit_status>>

vars == <<phase, builder, reg_calls, registry, selection, applied, config_diags,
          files, tasks, finished, all_diagnostics, runs, previous_run,
          test_input, test_results, test_diagnostics, exit_status>>

(***************************************************************************)
(* Bounds                                                                  *)
(***************************************************************************)
MaxCalls == 4
MaxOverrides == 2
MaxFiles == 2
Workers == 2
MaxRuns == 2
MaxDepth == 2
MaxNesting == 1

(***************************************************************************)
(* Small helpers                                                           *)
(***************************************************************************)
None == <<>>
Some(v) == <<v>>
IsSome(o) == o # <<>>

Range(s) == {s[i] : i \in 1..Len(s)}

(***************************************************************************)
(* rule.rs: Level, Severity, RuleSource, RuleMetadata, RuleId              *)
(***************************************************************************)
Levels == {"Ignore", "Warn", "Error"}
Severities == {"Warning", "Error"}
RuleSources == {"Default", "Cli", "File"}

SeverityTryFrom_IgnoreWarns(level) ==
    IF level = "Error" THEN Some("Error") ELSE Some("Warning")

\* impl TryFrom<Level> for Severity
SeverityTryFrom(level) ==
    CASE level = "Ignore" -> None
      [] level = "Warn"   -> Some("Warning")
      [] level = "Error"  -> Some("Error")

\* A RuleMetadata static.  ptr is the address of the static: RuleId compares
\* and hashes by it, two statics may carry the same name.
Meta(ptr, name, level, removed) ==
    [ptr |-> ptr, name |-> name, default_level |-> level, removed |-> removed]

\* RuleId::of and PartialEq for RuleId (std::ptr::eq)
RuleIdOf(meta) == meta
RuleIdEq(a, b) == a.ptr = b.ptr

\* RuleStatus::is_removed
is_removed(meta) == meta.removed

\* Rule statics used to exercise the registry builder.
TestMetas ==
    { Meta("A",  "a", "Warn",   FALSE),
      Meta("A2", "a", "Error",  FALSE),
      Meta("B",  "b", "Ignore", FALSE),
      Meta("C",  "c", "Error",  FALSE),
      Meta("R",  "r", "Error",  TRUE) }

TestMeta(ptr) == CHOOSE m \in TestMetas : m.ptr = ptr

\* Names given to register_alias: a fresh one and one that a rule may hold.
AliasNames == {"x", "a"}

(***************************************************************************)
(* FxHashMap: a map is a set of slots [key, value]                         *)
(***************************************************************************)
MapGet(map, key) ==
    IF \E s \in map : s.key = key
    THEN Some((CHOOSE s \in map : s.key = key).value)
    ELSE None

\* HashMap::insert: replaces the slot of the key (the caller gets the old value
\* through MapGet on the map before the insertion).
MapInsert(map, key, value) ==
    {s \in map : s.key # key} \cup {[key |-> key, value |-> value]}

\* HashMap::remove
MapRemove(map, key) == {s \in map : s.key # key}

MapKeys(map) == {s.key : s \in map}

(***************************************************************************)
(* rule.rs: RuleEntry, RuleRegistryBuilder                                 *)
(***************************************************************************)
\* impl From<&RuleMetadata> for RuleEntry
RuleEntryFrom(meta) ==
    IF is_removed(meta) THEN [kind |-> "Removed", id |-> RuleIdOf(meta)]
                        ELSE [kind |-> "Rule", id |-> RuleIdOf(meta)]

\* RuleRegistryBuilder::default.  panicked records that a call unwound.
EmptyBuilder == [rules |-> <<>>, by_name |-> {}, panicked |-> FALSE]

InsertPanics_NoAssert(previous) == FALSE

\* assert_eq!(by_name.insert(..), None, "duplicate rule registration ...")
InsertPanics(previous) == IsSome(previous)

\* register_rule pushing removed rules too
register_rule_PushesRemoved(b, rule) ==
    LET previous == MapGet(b.by_name, rule.name)
        inserted == MapInsert(b.by_name, rule.name, RuleEntryFrom(rule))
    IN  IF InsertPanics(previous)
        THEN [rules |-> b.rules, by_name |-> inserted, panicked |-> TRUE]
        ELSE [rules |-> Append(b.rules, RuleIdOf(rule)),
              by_name |-> inserted,
              panicked |-> FALSE]

\* RuleRegistryBuilder::register_rule
register_rule(b, rule) ==
    LET previous == MapGet(b.by_name, rule.name)
        inserted == MapInsert(b.by_name, rule.name, RuleEntryFrom(rule))
    IN  IF InsertPanics(previous)
        THEN [rules |-> b.rules, by_name |-> inserted, panicked |-> TRUE]
        ELSE [rules |-> IF ~is_removed(rule)
                        THEN Append(b.rules, RuleIdOf(rule))
                        ELSE b.rules,
              by_name |-> inserted,
              panicked |-> FALSE]

\* register_alias taking the rule it is given, without the lookup of its name
register_alias_Unchecked(b, from, to) ==
    LET previous == MapGet(b.by_name, from)
        inserted == MapInsert(b.by_name, from, [kind |-> "Alias", id |-> RuleIdOf(to)])
    IN  [rules |-> b.rules, by_name |-> inserted, panicked |-> InsertPanics(previous)]

\* RuleRegistryBuilder::register_alias
register_alias(b, from, to) ==
    LET found == MapGet(b.by_name, to.name)
    IN  IF found = None
        THEN [b EXCEPT !.panicked = TRUE]      \* points to non-registered rule
        ELSE IF found[1].kind = "Alias"
        THEN [b EXCEPT !.panicked = TRUE]      \* points to another alias
        ELSE LET target == found[1].id
                 previous == MapGet(b.by_name, from)
                 inserted == MapInsert(b.by_name, from,
                                       [kind |-> "Alias", id |-> target])
             IN  [rules |-> b.rules,
                  by_name |-> inserted,
                  panicked |-> InsertPanics(previous)]

\* RuleRegistryBuilder::build
build(b) == [rules |-> b.rules, by_name |-> b.by_name]

(***************************************************************************)
(* rule.rs: RuleRegistry                                                   *)
(***************************************************************************)
\* DiagnosticId::strip_category on the codes the model uses: "lint:a" is the
\* fully qualified form of "a", no other code carries a category.
strip_category(code) == IF code = "lint:a" THEN Some("a") ELSE None

\* RuleEntry::id
EntryId(entry) == entry.id

GetAlias_IgnoresRemoved(rule) == [tag |-> "Ok", id |-> rule]

\* RuleRegistry::get, the RuleEntry::Alias arm
GetAlias(rule) ==
    IF is_removed(rule) THEN [tag |-> "Removed", name |-> rule.name]
                        ELSE [tag |-> "Ok", id |-> rule]

GetUnknown_ResolvesPrefixed(reg, code) ==
    LET without_prefix == strip_category(code)
    IN  IF IsSome(without_prefix)
           /\ IsSome(MapGet(reg.by_name, without_prefix[1]))
        THEN [tag |-> "Ok", id |-> EntryId(MapGet(reg.by_name, without_prefix[1])[1])]
        ELSE [tag |-> "Unknown", code |-> code]

\* RuleRegistry::get, the None arm
GetUnknown(reg, code) ==
    LET without_prefix == strip_category(code)
    IN  IF IsSome(without_prefix)
           /\ IsSome(MapGet(reg.by_name, without_prefix[1]))
        THEN [tag |-> "PrefixedWithCategory",
              prefixed |-> code,
              suggestion |-> EntryId(MapGet(reg.by_name, without_prefix[1])[1]).name]
        ELSE [tag |-> "Unknown", code |-> code]

\* RuleRegistry::get
Get(reg, code) ==
    LET found == MapGet(reg.by_name, code)
    IN  IF found = None THEN GetUnknown(reg, code)
        ELSE CASE found[1].kind = "Rule"    -> [tag |-> "Ok", id |-> found[1].id]
               [] found[1].kind = "Alias"   -> GetAlias(found[1].id)
               [] found[1].kind = "Removed" ->
                      [tag |-> "Removed", name |-> found[1].id.name]

\* RuleRegistry::rules
rules(reg) == reg.rules

(***************************************************************************)
(* rule.rs: RuleSelection                                                  *)
(***************************************************************************)
Entry(severity, source) == <<severity, source>>

RECURSIVE CollectDefaults(_, _, _)
\* the filter_map(..).collect() of from_registry_with_default, in iteration order
CollectDefaults(rs, default_severity, acc) ==
    IF rs = <<>> THEN acc
    ELSE LET rule == Head(rs)
             own == SeverityTryFrom(rule.default_level)
             sev == IF IsSome(own) THEN own ELSE default_severity
         IN  CollectDefaults(Tail(rs), default_severity,
                 IF IsSome(sev)
                 THEN MapInsert(acc, rule, Entry(sev[1], "Default"))
                 ELSE acc)

\* RuleSelection::from_registry_with_default
from_registry_with_default(reg, default_severity) ==
    CollectDefaults(rules(reg), default_severity, {})

\* RuleSelection::from_registry
from_registry(reg) == from_registry_with_default(reg, None)

\* RuleSelection::get
SelGet(sel, rule) == MapGet(sel, rule)

\* RuleSelection::severity
severity(sel, rule) ==
    LET e == MapGet(sel, rule) IN IF IsSome(e) THEN Some(e[1][1]) ELSE None

\* RuleSelection::is_enabled
is_enabled(sel, rule) == IsSome(severity(sel, rule))

enable_KeepsExisting(sel, rule, sev, source) ==
    IF IsSome(MapGet(sel, rule)) THEN sel
    ELSE MapInsert(sel, rule, Entry(sev, source))

\* RuleSelection::enable
enable(sel, rule, sev, source) == MapInsert(sel, rule, Entry(sev, source))

\* disable emptying the selection
disable_RemovesAll(sel, rule) == {}

\* RuleSelection::disable
disable(sel, rule) == MapRemove(sel, rule)

\* RuleSelection::from_rules_selection, one (name, level) pair of the options:
\* resolve the name, warn when it does not resolve, otherwise disable the rule
\* for the level ignore and enable it with the level's severity otherwise.
apply_override(reg, st, ov) ==
    LET found == Get(reg, ov.name)
    IN  IF found.tag # "Ok"
        THEN [st EXCEPT !.diags = Append(@, [id |-> "unknown-rule",
                                             severity |-> "Warning",
                                             name |-> ov.name])]
        ELSE LET sev == SeverityTryFrom(ov.level)
             IN  IF IsSome(sev)
                 THEN [st EXCEPT !.sel = enable(@, found.id, sev[1], ov.source)]
                 ELSE [st EXCEPT !.sel = disable(@, found.id)]

RECURSIVE ApplyOverrides(_, _, _)
ApplyOverrides(reg, st, ovs) ==
    IF ovs = <<>> THEN st
    ELSE ApplyOverrides(reg, apply_override(reg, st, Head(ovs)), Tail(ovs))

\* RuleSelection::from_rules_selection: the registry defaults, then the
\* options' pairs in order; returns the selection and the diagnostics
from_rules_selection(reg, options) ==
    ApplyOverrides(reg, [sel |-> from_registry(reg), diags |-> <<>>], options)

(***************************************************************************)
(* Registry construction: the calls a registration function makes on a     *)
(* RuleRegistryBuilder, then build()                                       *)
(***************************************************************************)
EmptyRegistry == [rules |-> <<>>, by_name |-> {}]

\* The check command is not running.
NoTest ==
    /\ test_input = [options |-> <<>>, files |-> <<>>]
    /\ test_results = <<>>
    /\ test_diagnostics = None
    /\ exit_status = None

\* No project is being checked.
NoCheck ==
    /\ files = <<>>
    /\ tasks = <<>>
    /\ finished = <<>>
    /\ all_diagnostics = None
    /\ runs = 0
    /\ previous_run = <<>>
    /\ NoTest

InitRegistry ==
    /\ phase = "building"
    /\ builder = EmptyBuilder
    /\ reg_calls = <<>>
    /\ registry = EmptyRegistry
    /\ selection = {}
    /\ applied = <<>>
    /\ config_diags = <<>>
    /\ NoCheck

RegisterRule(rule) ==
    /\ phase = "building"
    /\ Len(reg_calls) < MaxCalls
    /\ builder' = register_rule(builder, rule)
    /\ phase' = IF builder'.panicked THEN "panicked" ELSE "building"
    /\ reg_calls' = Append(reg_calls, [op |-> "rule", name |-> rule.name, to |-> rule])
    /\ UNCHANGED <<registry, selection, applied, config_diags>>
    /\ UNCHANGED cvars

RegisterAlias(from, to) ==
    /\ phase = "building"
    /\ Len(reg_calls) < MaxCalls
    /\ builder' = register_alias(builder, from, to)
    /\ phase' = IF builder'.panicked THEN "panicked" ELSE "building"
    /\ reg_calls' = Append(reg_calls, [op |-> "alias", name |-> from, to |-> to])
    /\ UNCHANGED <<registry, selection, applied, config_diags>>
    /\ UNCHANGED cvars

\* build() consumes the builder; a builder whose call panicked is never built.
Build ==
    /\ phase = "building"
    /\ registry' = build(builder)
    /\ phase' = "built"
    /\ UNCHANGED <<builder, reg_calls, selection, applied, config_diags>>
    /\ UNCHANGED cvars

NextRegistry ==
    \/ \E rule \in TestMetas : RegisterRule(rule)
    \/ \E from \in AliasNames, to \in TestMetas : RegisterAlias(from, to)
    \/ Build

RegistrySpec == InitRegistry /\ [][NextRegistry]_vars

\* The name index the calls have produced so far.
CurrentIndex == IF phase = "built" THEN registry.by_name ELSE builder.by_name

\* The rule a completed register_rule call stored under a name.
RegisteredRule(name) ==
    reg_calls[CHOOSE i \in 1..Len(reg_calls) :
                 reg_calls[i].op = "rule" /\ reg_calls[i].name = name].to

\* C3: as long as no register_rule / register_alias call has panicked, the
\* name index holds exactly one entry per registered name (active rules,
\* removed rules and aliases) and no two completed calls registered the same
\* name; a call naming a present name panics, so a duplicate never reaches a
\* built registry.
C3_NameIndexUnique ==
    phase \in {"building", "built"} =>
        /\ \A s1, s2 \in CurrentIndex : s1.key = s2.key => s1 = s2
        /\ \A i, j \in 1..Len(reg_calls) :
               reg_calls[i].name = reg_calls[j].name => i = j
        /\ MapKeys(CurrentIndex) = {reg_calls[i].name : i \in 1..Len(reg_calls)}

C3_Witness ==
    /\ phase = "built"
    /\ {s.value.kind : s \in registry.by_name} = {"Rule", "Removed", "Alias"}

\* C7: in a built registry, looking up an alias gives Ok with the same RuleId
\* as looking up its target's name when the target is not removed, and both
\* lookups give Removed(target name) when the target is removed.
C7_AliasResolvesAsTarget ==
    phase = "built" =>
        \A i \in 1..Len(reg_calls) :
            reg_calls[i].op = "alias" =>
                LET t == RegisteredRule(reg_calls[i].to.name)
                    via_alias == Get(registry, reg_calls[i].name)
                    via_name == Get(registry, t.name)
                IN  IF t.removed
                    THEN /\ via_alias = [tag |-> "Removed", name |-> t.name]
                         /\ via_name = [tag |-> "Removed", name |-> t.name]
                    ELSE /\ via_alias.tag = "Ok"
                         /\ via_name.tag = "Ok"
                         /\ RuleIdEq(via_alias.id, t)
                         /\ RuleIdEq(via_alias.id, via_name.id)

C7_Witness ==
    /\ phase = "built"
    /\ \E i, j \in 1..Len(reg_calls) :
          /\ reg_calls[i].op = "alias" /\ RegisteredRule(reg_calls[i].to.name).removed
          /\ reg_calls[j].op = "alias" /\ ~RegisteredRule(reg_calls[j].to.name).removed

(***************************************************************************)
(* Selection construction: RuleSelection::from_rules_selection on a built  *)
(* registry: the defaults, then the (name, level) pairs of the options     *)
(***************************************************************************)
RuleCall(ptr) ==
    [op |-> "rule", name |-> TestMeta(ptr).name, to |-> TestMeta(ptr)]

AliasCall(from, ptr) == [op |-> "alias", name |-> from, to |-> TestMeta(ptr)]

\* Registration functions in the shape of register_rules (rules.rs).
SelectionPrograms ==
    { <<RuleCall("A"), RuleCall("B"), RuleCall("C"), RuleCall("R"),
        AliasCall("x", "A"), AliasCall("y", "R")>>,
      <<RuleCall("A2"), RuleCall("B")>> }

RECURSIVE RunCalls(_, _)
RunCalls(b, calls) ==
    IF calls = <<>> THEN b
    ELSE LET c == Head(calls)
         IN  RunCalls(IF c.op = "rule" THEN register_rule(b, c.to)
                                        ELSE register_alias(b, c.name, c.to),
                      Tail(calls))

\* Rule names written in the options: names of rules, of a removed rule, of
\* an alias, a name no rule has, and a fully qualified name.
OverrideNames == {"a", "b", "c", "r", "x", "zz", "lint:a"}

\* The source of an options file is File, of command line options Cli.
OverrideSources == {"File", "Cli"}

Overrides == [name : OverrideNames, level : Levels, source : OverrideSources]

InitSelection ==
    \E prog \in SelectionPrograms :
        /\ reg_calls = prog
        /\ builder = RunCalls(EmptyBuilder, prog)
        /\ registry = build(builder)
        /\ phase = "built"
        /\ selection = {}
        /\ applied = <<>>
        /\ config_diags = <<>>
        /\ NoCheck

\* from_rules_selection starts from RuleSelection::from_registry
FromRegistry ==
    /\ phase = "built"
    /\ selection' = from_registry(registry)
    /\ phase' = "selecting"
    /\ UNCHANGED <<builder, reg_calls, registry, applied, config_diags>>
    /\ UNCHANGED cvars

\* one iteration of the loop over the options' rules
ApplyOverride(ov) ==
    /\ phase = "selecting"
    /\ Len(applied) < MaxOverrides
    /\ LET st == apply_override(registry,
                                [sel |-> selection, diags |-> config_diags], ov)
       IN  /\ selection' = st.sel
           /\ config_diags' = st.diags
    /\ applied' = Append(applied, ov)
    /\ UNCHANGED <<phase, builder, reg_calls, registry>>
    /\ UNCHANGED cvars

\* from_rules_selection returns (selection, diagnostics)
FinishSelection ==
    /\ phase = "selecting"
    /\ phase' = "selected"
    /\ UNCHANGED <<builder, reg_calls, registry, selection, applied, config_diags>>
    /\ UNCHANGED cvars

NextSelection ==
    \/ FromRegistry
    \/ \E ov \in Overrides : ApplyOverride(ov)
    \/ FinishSelection

SelectionSpec == InitSelection /\ [][NextSelection]_vars

\* The severity a level stands for, as the claims state it.
LevelSeverity(level) == IF level = "Warn" THEN "Warning" ELSE "Error"

\* C4: from_registry holds, for every rule of registry.rules(), no entry when
\* its default level is Ignore, (Warning, Default) when it is Warn and
\* (Error, Default) when it is Error, and no entry for any other rule.
C4_FromRegistryDefaults ==
    (phase = "selecting" /\ applied = <<>>) =>
        /\ \A m \in TestMetas :
              SelGet(selection, m) =
                  IF m \in Range(registry.rules) /\ m.default_level # "Ignore"
                  THEN Some(<<LevelSeverity(m.default_level), "Default">>)
                  ELSE None
        /\ MapKeys(selection) \subseteq TestMetas
        /\ \A s1, s2 \in selection : s1.key = s2.key => s1 = s2

C4_Witness ==
    /\ phase = "selecting"
    /\ applied = <<>>
    /\ {m.default_level : m \in Range(registry.rules)} = Levels
    /\ \E m \in TestMetas : m \notin Range(registry.rules)

\* The name resolves to the active rule m (directly or through an alias).
NamesRule(name, m) ==
    /\ ~m.removed
    /\ \E s \in registry.by_name : s.key = name /\ s.value.id = m

Resolvable(name) == \E m \in TestMetas : NamesRule(name, m)

Max(S) == CHOOSE x \in S : \A y \in S : y <= x

\* C5: after any sequence of overrides each rule's entry is the one set by
\* the last override that names it (a File override followed by a Cli override
\* leaves the Cli severity and Cli provenance); a last override of level ignore
\* leaves no entry and is_enabled false; a rule no override names keeps its
\* default entry.
C5_LastOverrideWins ==
    phase \in {"selecting", "selected"} =>
        \A m \in TestMetas :
            LET naming == {i \in 1..Len(applied) : NamesRule(applied[i].name, m)}
            IN  IF naming = {}
                THEN SelGet(selection, m) =
                        IF m \in Range(registry.rules) /\ m.default_level # "Ignore"
                        THEN Some(<<LevelSeverity(m.default_level), "Default">>)
                        ELSE None
                ELSE LET ov == applied[Max(naming)]
                     IN  IF ov.level = "Ignore"
                         THEN SelGet(selection, m) = None /\ ~is_enabled(selection, m)
                         ELSE /\ SelGet(selection, m) =
                                    Some(<<LevelSeverity(ov.level), ov.source>>)
                              /\ is_enabled(selection, m)

C5_Witness ==
    /\ phase = "selected"
    /\ \E m \in TestMetas, i, j \in 1..Len(applied) :
          /\ i < j
          /\ NamesRule(applied[i].name, m) /\ applied[i].source = "File"
          /\ NamesRule(applied[j].name, m) /\ applied[j].source = "Cli"
          /\ applied[i].level = "Error" /\ applied[j].level = "Warn"
          /\ m.default_level = "Ignore"
          /\ SelGet(selection, m) = Some(<<"Warning", "Cli">>)

IsResolvableOverride(ov) == Resolvable(ov.name)

IsUnresolvableOverride(ov) == ~Resolvable(ov.name)

\* C6: an override whose name the registry cannot resolve does not stop the
\* construction: every such override yields exactly one warning-level
\* configuration diagnostic naming it, and the selection is the one the other
\* overrides produce when the unresolvable ones are left out.
C6_UnknownRuleWarnsAndContinues ==
    phase \in {"selecting", "selected"} =>
        LET unknown == SelectSeq(applied, IsUnresolvableOverride)
            known == SelectSeq(applied, IsResolvableOverride)
        IN  /\ Len(config_diags) = Len(unknown)
            /\ \A i \in 1..Len(unknown) :
                  /\ config_diags[i].severity = "Warning"
                  /\ config_diags[i].name = unknown[i].name
            /\ selection =
                  from_rules_selection(registry, known).sel

C6_Witness ==
    /\ phase = "selected"
    /\ Len(config_diags) = 1
    /\ \E i, j \in 1..Len(applied), m \in TestMetas :
          /\ applied[i].name = "zz"
          /\ i < j
          /\ NamesRule(applied[j].name, m)
          /\ m.default_level = "Warn"
          /\ applied[j].level = "Ignore"
          /\ ~is_enabled(selection, m)

(***************************************************************************)
(* rules.rs: the rule statics and register_rules                           *)
(***************************************************************************)
TYPING_ANY_USED == Meta("TYPING_ANY_USED", "typing-any-used", "Warn", FALSE)
CALLABLE_ELLIPSIS_USED ==
    Meta("CALLABLE_ELLIPSIS_USED", "callable-ellipsis-used", "Warn", FALSE)
MUTABLE_GENERIC_DEFAULT ==
    Meta("MUTABLE_GENERIC_DEFAULT", "mutable-generic-default", "Error", FALSE)
INVALID_OVERLOAD_IMPLEMENTATION ==
    Meta("INVALID_OVERLOAD_IMPLEMENTATION", "invalid-overload-implementation",
         "Error", FALSE)
TYPING_OVERLOAD_USED ==
    Meta("TYPING_OVERLOAD_USED", "typing-overload-used", "Warn", FALSE)
TYPE_CHECKING_DIRECTIVE_USED ==
    Meta("TYPE_CHECKING_DIRECTIVE_USED", "type-checking-directive-used",
         "Warn", FALSE)
IF_TYPE_CHECKING_USED ==
    Meta("IF_TYPE_CHECKING_USED", "if-type-checking-used", "Warn", FALSE)
INVALID_FUNCTION_DEFAULTS ==
    Meta("INVALID_FUNCTION_DEFAULTS", "invalid-function-defaults", "Error", FALSE)
MUTATING_FUNCTION_CODE_ATTRIBUTE ==
    Meta("MUTATING_FUNCTION_CODE_ATTRIBUTE", "mutating-function-code-attribute",
         "Error", FALSE)
TYPING_CAST_USED == Meta("TYPING_CAST_USED", "typing-cast-used", "Warn", FALSE)
MUTATING_GLOBALS_DICT ==
    Meta("MUTATING_GLOBALS_DICT", "mutating-globals-dict", "Error", FALSE)
TYPING_TYPE_IS_USED ==
    Meta("TYPING_TYPE_IS_USED", "typing-type-is-used", "Warn", FALSE)
MANGLED_DUNDER_INSTANCE_VARIABLE ==
    Meta("MANGLED_DUNDER_INSTANCE_VARIABLE", "mangled-dunder-instance-variable",
         "Warn", FALSE)
INVALID_SETATTR == Meta("INVALID_SETATTR", "invalid-setattr", "Warn", FALSE)

RegisterCall(meta) == [op |-> "rule", name |-> meta.name, to |-> meta]

\* register_rules
register_rules ==
    << RegisterCall(TYPING_ANY_USED),
       RegisterCall(INVALID_OVERLOAD_IMPLEMENTATION),
       RegisterCall(TYPING_OVERLOAD_USED),
       RegisterCall(TYPE_CHECKING_DIRECTIVE_USED),
       RegisterCall(IF_TYPE_CHECKING_USED),
       RegisterCall(INVALID_FUNCTION_DEFAULTS),
       RegisterCall(MUTATING_FUNCTION_CODE_ATTRIBUTE),
       RegisterCall(TYPING_CAST_USED),
       RegisterCall(MUTATING_GLOBALS_DICT),
       RegisterCall(TYPING_TYPE_IS_USED),
       RegisterCall(CALLABLE_ELLIPSIS_USED),
       RegisterCall(MUTABLE_GENERIC_DEFAULT),
       RegisterCall(MANGLED_DUNDER_INSTANCE_VARIABLE),
       RegisterCall(INVALID_SETATTR) >>

\* lib.rs: default_rule_registry
default_rule_registry == build(RunCalls(EmptyBuilder, register_rules))

RuleMetas == {register_rules[i].to : i \in 1..Len(register_rules)}

(***************************************************************************)
(* The consumed semantic model (ty_python_semantic): types and the queries *)
(* the rules make.  A type is [t, name, args].                             *)
(***************************************************************************)
Ty(t, name, args) == [t |-> t, name |-> name, args |-> args]

AnyT == Ty("Any", "Any", <<>>)                   \* Type::Dynamic(DynamicType::Any)
UnknownT == Ty("Unknown", "Unknown", <<>>)       \* Type::Dynamic(DynamicType::Unknown)
Instance(name) == Ty("NominalInstance", name, <<>>)
IntT == Instance("int")
StrT == Instance("str")
BytesT == Instance("bytes")
ObjectT == Instance("object")
NoneT == Instance("None")
ListT == Instance("list")
IntLiteral == Ty("IntLiteral", "Literal[1]", <<>>)
StringLiteral == Ty("StringLiteral", "Literal[\"s\"]", <<>>)
BytesLiteral == Ty("BytesLiteral", "Literal[b\"\"]", <<>>)
TupleT(elems) == Ty("Tuple", "tuple", elems)
UnionT(members) == Ty("Union", "Union", members)
FunctionLiteral(name) == Ty("FunctionLiteral", name, <<>>)
TypeVarT(name, bound) == Ty("TypeVar", name, bound)
CallableT == Ty("Callable", "Callable", <<>>)
TypeIsT == Ty("TypeIs", "TypeIs", <<>>)
ModuleT == Ty("ModuleLiteral", "module", <<>>)

RECURSIVE promote_literals(_)
\* Type::promote_literals
promote_literals(ty) ==
    CASE ty.t = "IntLiteral"    -> IntT
      [] ty.t = "StringLiteral" -> StrT
      [] ty.t = "BytesLiteral"  -> BytesT
      [] ty.t \in {"Tuple", "Union"} ->
             [ty EXCEPT !.args = [i \in 1..Len(ty.args) |-> promote_literals(ty.args[i])]]
      [] OTHER -> ty

RECURSIVE is_assignable_to(_, _)
\* Type::is_assignable_to
is_assignable_to(a, b) ==
    CASE a = b -> TRUE
      [] a.t \in {"Any", "Unknown"} \/ b.t \in {"Any", "Unknown"} -> TRUE
      [] b = ObjectT -> TRUE
      [] a.t = "Union" -> \A i \in 1..Len(a.args) : is_assignable_to(a.args[i], b)
      [] b.t = "Union" -> \E i \in 1..Len(b.args) : is_assignable_to(a, b.args[i])
      [] a.t = "Tuple" /\ b.t = "Tuple" ->
             /\ Len(a.args) = Len(b.args)
             /\ \A i \in 1..Len(a.args) : is_assignable_to(a.args[i], b.args[i])
      [] a.t \in {"IntLiteral", "StringLiteral", "BytesLiteral"} ->
             is_assignable_to(promote_literals(a), b)
      [] OTHER -> FALSE

\* Type::is_none
is_none(ty) == ty = NoneT

\* Type::tuple_instance_spec and TupleSpec::fixed_elements
tuple_instance_spec(ty) == IF ty.t = "Tuple" THEN Some(ty.args) ELSE None

RECURSIVE display(_)
RECURSIVE DisplayAll(_)
DisplayAll(tys) ==
    IF tys = <<>> THEN <<>> ELSE <<display(Head(tys))>> \o DisplayAll(Tail(tys))

\* Type::display
display(ty) ==
    IF ty.t \in {"Tuple", "Union"} THEN <<ty.name>> \o DisplayAll(ty.args)
    ELSE <<ty.name>>

\* UnionBuilder::new(db).add(..).build() over the types of a list
UnionOf(tys) ==
    CASE Len(tys) = 0 -> Ty("Never", "Never", <<>>)
      [] Len(tys) = 1 -> tys[1]
      [] OTHER -> UnionT(tys)

(***************************************************************************)
(* The syntax tree (ruff_python_ast) with the semantic model's answers     *)
(***************************************************************************)
\* An expression: kind, range, inferred type, the identifier / attribute /
\* string value it carries, and its sub-expressions in source order.
Expr(kind, range, ty, text, children) ==
    [kind |-> kind, range |-> range, ty |-> ty, text |-> text, children |-> children]

\* HasType::inferred_type
inferred_type(node) == node.ty

BaseStmt ==
    [kind |-> "Pass", range |-> <<0, 0>>, ty |-> UnknownT,
     decorators |-> <<>>, params |-> <<>>, returns |-> None,
     targets |-> <<>>, annotation |-> None, value |-> None, test |-> None,
     body |-> <<>>, clauses |-> <<>>, scope |-> {}]

\* A parameter: its annotation and its default, both optional.
Param(annotation, default) == [annotation |-> annotation, default |-> default]

Decorator(range, expression) == [range |-> range, expression |-> expression]

FunctionDef(range, ty, decorators, params, returns, body) ==
    [BaseStmt EXCEPT !.kind = "FunctionDef", !.range = range, !.ty = ty,
                     !.decorators = decorators, !.params = params,
                     !.returns = returns, !.body = body]

ClassDef(range, body) ==
    [BaseStmt EXCEPT !.kind = "ClassDef", !.range = range, !.body = body]

AnnAssign(range, target, annotation, value) ==
    [BaseStmt EXCEPT !.kind = "AnnAssign", !.range = range, !.targets = <<target>>,
                     !.annotation = Some(annotation), !.value = value]

Assign(range, targets, value, scope) ==
    [BaseStmt EXCEPT !.kind = "Assign", !.range = range, !.targets = targets,
                     !.value = Some(value), !.scope = scope]

If(range, test, body, clauses) ==
    [BaseStmt EXCEPT !.kind = "If", !.range = range, !.test = Some(test),
                     !.body = body, !.clauses = clauses]

Return(range, value) ==
    [BaseStmt EXCEPT !.kind = "Return", !.range = range, !.value = value]

ExprStmt(range, value) ==
    [BaseStmt EXCEPT !.kind = "Expr", !.range = range, !.value = Some(value)]

Pass(range) == [BaseStmt EXCEPT !.range = range]

\* What the semantic model knows of a function type: the overload signatures
\* (with the decorators of their definitions), the implementation signature
\* and whether it is a known function of the standard library.
Overload(decorators, return_ty) ==
    [decorators |-> decorators, return_ty |-> return_ty]

Implementation(annotated_types, default_types) ==
    [annotated_types |-> annotated_types, default_types |-> default_types]

FunctionInfo(overloads, implementation, known) ==
    [overloads |-> overloads, implementation |-> implementation, known |-> known]

\* FunctionType::overloads_and_implementation
overloads_and_implementation(model, function_ty) == model.functions[function_ty.name]

\* FunctionType::is_known
is_known(model, function_ty, known) == model.functions[function_ty.name].known = known

\* all_members (ide_support)
all_members(model, ty) ==
    IF ty.name \in DOMAIN model.members THEN model.members[ty.name] ELSE {}

(***************************************************************************)
(* rules.rs: the report_* functions.  Each is one Context::report_lint     *)
(* call: the rule, the range, the message handed to into_diagnostic and    *)
(* the info sub-diagnostics added while the guard is alive.                *)
(***************************************************************************)
Report(rule, range, message, infos) ==
    [rule |-> rule, range |-> range, message |-> message, infos |-> infos]

report_typing_any_used(expr) ==
    Report(TYPING_ANY_USED, expr.range,
           <<"Using typing.Any in type annotations can lead to runtime errors.">>,
           <<>>)

\* get_return_type_display of report_invalid_overload_implementation
get_return_type_display(ty) == IF IsSome(ty) THEN display(ty[1]) ELSE <<"None">>

RECURSIVE OverloadReturnTypesDisplay(_)
OverloadReturnTypesDisplay(tys) ==
    IF tys = <<>> THEN <<>>
    ELSE <<get_return_type_display(Head(tys))>> \o OverloadReturnTypesDisplay(Tail(tys))

report_invalid_overload_implementation(return_statement, return_type, overload_return_types) ==
    Report(INVALID_OVERLOAD_IMPLEMENTATION, return_statement.range,
           <<"Invalid overload implementation can lead to runtime errors.">>,
           << <<"This overload implementation is invalid as",
                get_return_type_display(return_type),
                "is not assignable to any of the overload return types",
                OverloadReturnTypesDisplay(overload_return_types)>> >>)

report_typing_overload_used(decorator) ==
    Report(TYPING_OVERLOAD_USED, decorator.range,
           <<"Using typing.overload can lead to runtime errors.">>, <<>>)

report_type_checking_directive_used(range, directive) ==
    Report(TYPE_CHECKING_DIRECTIVE_USED, range,
           <<"Type checking directive", directive,
             "suppresses type checker warnings, which may hide potential type errors.">>,
           <<>>)

report_setting_function_defaults_attribute(expr, new_defaults) ==
    Report(INVALID_FUNCTION_DEFAULTS, expr.range,
           <<"Setting __defaults__ to an object of type", display(new_defaults),
             "on a function may lead to runtime type errors.">>,
           <<>>)

report_mutating_function_code_attribute(expr) ==
    Report(MUTATING_FUNCTION_CODE_ATTRIBUTE, expr.range,
           <<"Mutating __code__ attribute on a function may lead to runtime type errors.">>,
           <<>>)

report_if_type_checking_used(expr) ==
    Report(IF_TYPE_CHECKING_USED, expr.range,
           <<"Using if TYPE_CHECKING: blocks can lead to runtime errors if imports or definitions are incorrectly referenced at runtime.">>,
           <<>>)

report_typing_cast_used(expr) ==
    Report(TYPING_CAST_USED, expr.range,
           <<"Using typing.cast() bypasses type checking and can lead to runtime type errors.">>,
           << <<"Consider using isinstance checks to ensure types at runtime.">> >>)

report_mutating_globals_dict(expr) ==
    Report(MUTATING_GLOBALS_DICT, expr.range,
           <<"Mutating the globals() dictionary may lead to runtime type errors.">>,
           <<>>)

report_typing_type_is_used(expr) ==
    Report(TYPING_TYPE_IS_USED, expr.range,
           <<"Using typing.TypeIs can lead to runtime type errors.">>, <<>>)

report_callable_ellipsis_used(expr) ==
    Report(CALLABLE_ELLIPSIS_USED, expr.range,
           <<"Using ... in Callable type annotations can lead to runtime type errors.">>,
           <<>>)

report_mutable_generic_default(expr) ==
    Report(MUTABLE_GENERIC_DEFAULT, expr.range,
           <<"Using a mutable default argument for a generic parameter in a function can lead to runtime type errors.">>,
           <<>>)

report_mangled_dunder_instance_variable(expr, attr_name) ==
    Report(MANGLED_DUNDER_INSTANCE_VARIABLE, expr.range,
           <<"Explicit use of mangled attribute", attr_name,
             "can bypass type checking and lead to runtime type errors.">>,
           <<>>)

report_invalid_setattr(expr, original_ty, new_type) ==
    Report(INVALID_SETATTR, expr.range,
           <<"Using setattr() bypasses type checking and can lead to runtime type errors.">>,
           << <<"Object of type", display(original_ty),
                "is not assignable to type", display(new_type)>> >>)

(***************************************************************************)
(* checker/ast/annotation.rs                                               *)
(***************************************************************************)
RECURSIVE DynamicVisitExpr(_)
RECURSIVE DynamicWalkExprs(_)
DynamicWalkExprs(exprs) ==
    IF exprs = <<>> THEN <<>>
    ELSE DynamicVisitExpr(Head(exprs)) \o DynamicWalkExprs(Tail(exprs))

\* Subscript whose slice is a tuple starting with the ellipsis literal
IsEllipsisSubscript(expr) ==
    /\ expr.kind = "Subscript"
    /\ expr.children[2].kind = "Tuple"
    /\ expr.children[2].children # <<>>
    /\ expr.children[2].children[1].kind = "EllipsisLiteral"

\* visit_expr without the closing walk_expr
DynamicVisitExpr_NoWalk(expr) ==
    LET ty == inferred_type(expr)
    IN  (IF ty = AnyT THEN <<report_typing_any_used(expr)>> ELSE <<>>)
        \o (IF ty.t = "Callable" /\ IsEllipsisSubscript(expr)
            THEN <<report_callable_ellipsis_used(expr)>> ELSE <<>>)

\* DynamicAnnotationChecker::visit_expr
DynamicVisitExpr(expr) ==
    LET ty == inferred_type(expr)
    IN  (IF ty = AnyT THEN <<report_typing_any_used(expr)>> ELSE <<>>)
        \o (IF ty.t = "Callable" /\ IsEllipsisSubscript(expr)
            THEN <<report_callable_ellipsis_used(expr)>> ELSE <<>>)
        \o DynamicWalkExprs(expr.children)

\* check_annotation
check_annotation(expr) == DynamicVisitExpr(expr)

RECURSIVE GenericVisitExpr(_)
\* GenericAnnotationChecker::visit_expr: does the walk set contains_generic
GenericVisitExpr(expr) ==
    \/ inferred_type(expr).t = "TypeVar"
    \/ \E i \in 1..Len(expr.children) : GenericVisitExpr(expr.children[i])

\* is_generic_annotation
is_generic_annotation(expr) == GenericVisitExpr(expr)

\* checker/ast/utils.rs: is_mutable_expr
is_mutable_expr_LiteralsOnly(expr) == expr.kind \in {"List", "Dict", "Set"}

is_mutable_expr(expr) ==
    expr.kind \in {"List", "Dict", "Set", "ListComp", "DictComp", "SetComp"}

(***************************************************************************)
(* checker/ast/statement/function_definition.rs                            *)
(***************************************************************************)
RECURSIVE FinderVisitStmt(_, _)
RECURSIVE FinderWalkBody(_, _)
RECURSIVE FinderWalkClauses(_, _)
\* source_order::walk_body with the ReturnStatementFinder
FinderWalkBody(finder, stmts) ==
    IF stmts = <<>> THEN finder
    ELSE FinderWalkBody(FinderVisitStmt(finder, Head(stmts)), Tail(stmts))

FinderWalkClauses(finder, clauses) ==
    IF clauses = <<>> THEN finder
    ELSE FinderWalkClauses(FinderWalkBody(finder, Head(clauses).body), Tail(clauses))

\* ReturnStatementFinder::visit_stmt
FinderVisitStmt(finder, stmt) ==
    CASE stmt.kind = "Return" ->
             IF ~finder.inside_inner_function
             THEN [finder EXCEPT !.return_statements = Append(@, stmt)]
             ELSE finder
      [] stmt.kind = "FunctionDef" ->
             [FinderWalkBody([finder EXCEPT !.inside_inner_function = TRUE], stmt.body)
                 EXCEPT !.inside_inner_function = FALSE]
      [] OTHER ->
             FinderWalkClauses(FinderWalkBody(finder, stmt.body), stmt.clauses)

\* get_return_statements
get_return_statements(stmt_function_def) ==
    FinderWalkBody([return_statements |-> <<>>, inside_inner_function |-> FALSE],
                   stmt_function_def.body).return_statements

RECURSIVE OverloadDecoratorReports(_, _)
\* the decorator loop of check_overloads over one overload decorator_list
OverloadDecoratorReports(model, decorators) ==
    IF decorators = <<>> THEN <<>>
    ELSE LET decorator == Head(decorators)
             decorator_ty == inferred_type(decorator.expression)
         IN  (IF decorator_ty.t = "FunctionLiteral"
                 /\ is_known(model, decorator_ty, "Overload")
              THEN <<report_typing_overload_used(decorator)>> ELSE <<>>)
             \o OverloadDecoratorReports(model, Tail(decorators))

RECURSIVE OverloadUsedReports(_, _)
OverloadUsedReports(model, overloads) ==
    IF overloads = <<>> THEN <<>>
    ELSE OverloadDecoratorReports(model, Head(overloads).decorators)
         \o OverloadUsedReports(model, Tail(overloads))

RECURSIVE SomeTypes(_)
\* filter_map(|ty| ty.as_ref())
SomeTypes(tys) ==
    IF tys = <<>> THEN <<>>
    ELSE (IF IsSome(Head(tys)) THEN <<Head(tys)[1]>> ELSE <<>>) \o SomeTypes(Tail(tys))

RECURSIVE ReturnReports(_, _, _, _)
RECURSIVE ReturnReports_BareReturnIsNone(_, _, _, _)
\* the loop of check_overloads over the return statements
\* the loop treating a bare return as a return of None
ReturnReports_BareReturnIsNone(return_statements, overload_return_types, union, any_none) ==
    IF return_statements = <<>> THEN <<>>
    ELSE LET return_statement == Head(return_statements)
             return_type == IF IsSome(return_statement.value)
                            THEN Some(inferred_type(return_statement.value[1]))
                            ELSE None
             here ==
                 CASE (IsSome(return_type) /\ any_none)
                      \/ (return_type = None /\ ~any_none
                          /\ ~is_assignable_to(NoneT, union)) ->
                          <<report_invalid_overload_implementation(
                                return_statement, return_type, overload_return_types)>>
                   [] IsSome(return_type) /\ ~any_none ->
                          IF ~is_assignable_to(return_type[1], union)
                          THEN <<report_invalid_overload_implementation(
                                     return_statement, return_type,
                                     overload_return_types)>>
                          ELSE <<>>
                   [] OTHER -> <<>>
         IN  here \o ReturnReports_BareReturnIsNone(Tail(return_statements), overload_return_types,
                                   union, any_none)

ReturnReports(return_statements, overload_return_types, union, any_none) ==
    IF return_statements = <<>> THEN <<>>
    ELSE LET return_statement == Head(return_statements)
             return_type == IF IsSome(return_statement.value)
                            THEN Some(inferred_type(return_statement.value[1]))
                            ELSE None
             here ==
                 CASE (IsSome(return_type) /\ any_none)
                      \/ (return_type = None /\ ~any_none) ->
                          <<report_invalid_overload_implementation(
                                return_statement, return_type, overload_return_types)>>
                   [] IsSome(return_type) /\ ~any_none ->
                          IF ~is_assignable_to(return_type[1], union)
                          THEN <<report_invalid_overload_implementation(
                                     return_statement, return_type,
                                     overload_return_types)>>
                          ELSE <<>>
                   [] OTHER -> <<>>
         IN  here \o ReturnReports(Tail(return_statements), overload_return_types,
                                   union, any_none)

\* check_overloads reporting the decorators at every definition of the name
check_overloads_ReportsEveryDefinition(model, stmt_function_def) ==
    LET function_ty == inferred_type(stmt_function_def)
    IN  IF function_ty.t # "FunctionLiteral" THEN <<>>
        ELSE
        LET info == overloads_and_implementation(model, function_ty)
            overloads == info.overloads
            used == OverloadUsedReports(model, overloads)
            overload_return_types ==
                [i \in 1..Len(overloads) |-> overloads[i].return_ty]
            union_of_overload_return_type == UnionOf(SomeTypes(overload_return_types))
            is_any_overload_return_type_none ==
                \E i \in 1..Len(overload_return_types) : overload_return_types[i] = None
        IN  IF overloads = <<>> THEN used
            ELSE used \o ReturnReports(get_return_statements(stmt_function_def),
                                       overload_return_types,
                                       union_of_overload_return_type,
                                       is_any_overload_return_type_none)

\* check_overloads
check_overloads(model, stmt_function_def) ==
    LET function_ty == inferred_type(stmt_function_def)
    IN  IF function_ty.t # "FunctionLiteral" THEN <<>>
        ELSE
        LET info == overloads_and_implementation(model, function_ty)
            overloads == info.overloads
            used == IF IsSome(info.implementation)
                    THEN OverloadUsedReports(model, overloads) ELSE <<>>
            overload_return_types ==
                [i \in 1..Len(overloads) |-> overloads[i].return_ty]
            union_of_overload_return_type == UnionOf(SomeTypes(overload_return_types))
            is_any_overload_return_type_none ==
                \E i \in 1..Len(overload_return_types) : overload_return_types[i] = None
        IN  IF overloads = <<>> THEN used
            ELSE used \o ReturnReports(get_return_statements(stmt_function_def),
                                       overload_return_types,
                                       union_of_overload_return_type,
                                       is_any_overload_return_type_none)

RECURSIVE ParameterReports(_)
\* the loop of check_function_definition_statement over the parameters
ParameterReports(params) ==
    IF params = <<>> THEN <<>>
    ELSE LET parameter == Head(params)
         IN  (IF IsSome(parameter.annotation)
              THEN check_annotation(parameter.annotation[1])
                   \o (IF IsSome(parameter.default)
                          /\ is_mutable_expr(parameter.default[1])
                          /\ is_generic_annotation(parameter.annotation[1])
                       THEN <<report_mutable_generic_default(parameter.default[1])>>
                       ELSE <<>>)
              ELSE <<>>)
             \o ParameterReports(Tail(params))

check_function_definition_statement_SkipsReturns(model, stmt_function_def) ==
    check_overloads(model, stmt_function_def)
    \o (IF IsSome(stmt_function_def.returns)
           /\ inferred_type(stmt_function_def.returns[1]).t = "TypeIs"
        THEN <<report_typing_type_is_used(stmt_function_def.returns[1])>> ELSE <<>>)
    \o ParameterReports(stmt_function_def.params)

\* check_function_definition_statement
check_function_definition_statement(model, stmt_function_def) ==
    check_overloads(model, stmt_function_def)
    \o (IF IsSome(stmt_function_def.returns)
           /\ inferred_type(stmt_function_def.returns[1]).t = "TypeIs"
        THEN <<report_typing_type_is_used(stmt_function_def.returns[1])>> ELSE <<>>)
    \o ParameterReports(stmt_function_def.params)
    \o (IF IsSome(stmt_function_def.returns)
        THEN check_annotation(stmt_function_def.returns[1]) ELSE <<>>)

(***************************************************************************)
(* checker/ast/statement/assignment_statement.rs                           *)
(***************************************************************************)
\* is_globals_call
is_globals_call(expr) ==
    /\ expr.kind = "Call"
    /\ expr.children[1].kind = "Name"
    /\ expr.children[1].text = "globals"

\* check_assignment, the Expr::Subscript arm for one target
GlobalsTargetReports(stmt_assign, target) ==
    IF is_globals_call(target.children[1]) /\ target.children[2].kind = "StringLiteral"
    THEN LET current_symbol_definition ==
                 MapGet(stmt_assign.scope, target.children[2].text)
         IN  IF IsSome(current_symbol_definition)
             THEN LET value_type == inferred_type(target)
                      current_promotion == promote_literals(current_symbol_definition[1])
                  IN  IF ~is_assignable_to(value_type, current_promotion)
                      THEN <<report_mutating_globals_dict(target)>>
                      ELSE <<>>
             ELSE <<>>
    ELSE <<>>

IsSomeType(ty) == IsSome(ty)

Min(a, b) == IF a <= b THEN a ELSE b

\* check_assignment, the "__defaults__" arm for one target
\* the __defaults__ arm without the comparison of the lengths
DefaultsTargetReports_NoLengthCheck(model, target, function_ty) ==
    LET info == overloads_and_implementation(model, function_ty)
    IN  IF info.implementation = None THEN <<>>
        ELSE
        LET signature == info.implementation[1]
            annotated_types == signature.annotated_types
            default_types == SelectSeq(signature.default_types, IsSomeType)
            inferred_target_type == inferred_type(target)
            report == report_setting_function_defaults_attribute(
                          target, inferred_target_type)
            none_report == IF is_none(inferred_target_type) /\ default_types # <<>>
                           THEN <<report>> ELSE <<>>
            tuple_spec == tuple_instance_spec(inferred_target_type)
        IN  IF tuple_spec = None THEN none_report
            ELSE
            LET target_tuple_elements == tuple_spec[1]
                zipped == Min(Len(target_tuple_elements), Len(annotated_types))
            IN  none_report
                \o (IF \E i \in 1..zipped :
                          /\ IsSome(annotated_types[i])
                          /\ ~is_assignable_to(target_tuple_elements[i],
                                               annotated_types[i][1])
                    THEN <<report>> ELSE <<>>)

\* the __defaults__ arm comparing the elements with the annotations of the
\* parameters that have a default
DefaultsTargetReports_AlignsWithDefaulted(model, target, function_ty) ==
    LET info == overloads_and_implementation(model, function_ty)
    IN  IF info.implementation = None THEN <<>>
        ELSE
        LET signature == info.implementation[1]
            HasDefault(i) == IsSome(signature.default_types[i])
            defaulted == SelectSeq([i \in 1..Len(signature.default_types) |-> i],
                                   HasDefault)
            annotated_types ==
                [n \in 1..Len(defaulted) |-> signature.annotated_types[defaulted[n]]]
            default_types == SelectSeq(signature.default_types, IsSomeType)
            inferred_target_type == inferred_type(target)
            report == report_setting_function_defaults_attribute(
                          target, inferred_target_type)
            none_report == IF is_none(inferred_target_type) /\ default_types # <<>>
                           THEN <<report>> ELSE <<>>
            tuple_spec == tuple_instance_spec(inferred_target_type)
        IN  IF tuple_spec = None THEN none_report
            ELSE
            LET target_tuple_elements == tuple_spec[1]
                zipped == Min(Len(target_tuple_elements), Len(annotated_types))
            IN  IF Len(target_tuple_elements) < Len(default_types)
                THEN none_report \o <<report>>
                ELSE none_report
                     \o (IF \E i \in 1..zipped :
                               /\ IsSome(annotated_types[i])
                               /\ ~is_assignable_to(target_tuple_elements[i],
                                                    annotated_types[i][1])
                         THEN <<report>> ELSE <<>>)

\* check_assignment, the __defaults__ arm for one target
DefaultsTargetReports(model, target, function_ty) ==
    LET info == overloads_and_implementation(model, function_ty)
    IN  IF info.implementation = None THEN <<>>
        ELSE
        LET signature == info.implementation[1]
            annotated_types == signature.annotated_types
            default_types == SelectSeq(signature.default_types, IsSomeType)
            inferred_target_type == inferred_type(target)
            report == report_setting_function_defaults_attribute(
                          target, inferred_target_type)
            none_report == IF is_none(inferred_target_type) /\ default_types # <<>>
                           THEN <<report>> ELSE <<>>
            tuple_spec == tuple_instance_spec(inferred_target_type)
        IN  IF tuple_spec = None THEN none_report
            ELSE
            LET target_tuple_elements == tuple_spec[1]
                zipped == Min(Len(target_tuple_elements), Len(annotated_types))
            IN  IF Len(target_tuple_elements) < Len(default_types)
                THEN none_report \o <<report>>
                ELSE none_report
                     \o (IF \E i \in 1..zipped :
                               /\ IsSome(annotated_types[i])
                               /\ ~is_assignable_to(target_tuple_elements[i],
                                                    annotated_types[i][1])
                         THEN <<report>> ELSE <<>>)

\* the __code__ arm reporting only functions that have an implementation
AttributeTargetReports_NeedsImplementation(model, target) ==
    LET inferred_value_type == inferred_type(target.children[1])
    IN  IF inferred_value_type.t = "FunctionLiteral"
        THEN CASE target.text = "__defaults__" ->
                      DefaultsTargetReports(model, target, inferred_value_type)
               [] target.text = "__code__" ->
                      IF overloads_and_implementation(model, inferred_value_type).implementation = None
                      THEN <<>>
                      ELSE <<report_mutating_function_code_attribute(target)>>
               [] OTHER -> <<>>
        ELSE <<>>

\* check_assignment, the Expr::Attribute arm for one target
AttributeTargetReports(model, target) ==
    LET inferred_value_type == inferred_type(target.children[1])
    IN  IF inferred_value_type.t = "FunctionLiteral"
        THEN CASE target.text = "__defaults__" ->
                      DefaultsTargetReports(model, target, inferred_value_type)
               [] target.text = "__code__" ->
                      <<report_mutating_function_code_attribute(target)>>
               [] OTHER -> <<>>
        ELSE <<>>

RECURSIVE AssignmentTargetReports(_, _, _)
AssignmentTargetReports(model, stmt_assign, targets) ==
    IF targets = <<>> THEN <<>>
    ELSE LET target == Head(targets)
         IN  (CASE target.kind = "Subscript" -> GlobalsTargetReports(stmt_assign, target)
                [] target.kind = "Attribute" -> AttributeTargetReports(model, target)
                [] OTHER -> <<>>)
             \o AssignmentTargetReports(model, stmt_assign, Tail(targets))

\* check_assignment
check_assignment(model, stmt_assign) ==
    AssignmentTargetReports(model, stmt_assign, stmt_assign.targets)

(***************************************************************************)
(* checker/ast/statement/if_statement.rs                                   *)
(***************************************************************************)
RECURSIVE is_type_checking_test(_)
is_type_checking_test(expr) ==
    CASE expr.kind = "Name" -> expr.text = "TYPE_CHECKING"
      [] expr.kind = "Attribute" -> expr.text = "TYPE_CHECKING"
      [] expr.kind = "UnaryOp" -> is_type_checking_test(expr.children[1])
      [] OTHER -> FALSE

check_if_statement(stmt_if) ==
    IF is_type_checking_test(stmt_if.test[1])
    THEN <<report_if_type_checking_used(stmt_if.test[1])>> ELSE <<>>

(***************************************************************************)
(* checker/ast/statement/mod.rs                                            *)
(***************************************************************************)
check_statement(model, stmt) ==
    CASE stmt.kind = "FunctionDef" -> check_function_definition_statement(model, stmt)
      [] stmt.kind = "AnnAssign" -> check_annotation(stmt.annotation[1])
      [] stmt.kind = "Assign" -> check_assignment(model, stmt)
      [] stmt.kind = "If" -> check_if_statement(stmt)
      [] OTHER -> <<>>

(***************************************************************************)
(* checker/ast/expr/call.rs, attribute.rs, mod.rs                          *)
(***************************************************************************)
\* Arguments::find_positional (0-based) on a call whose children are the
\* callee followed by the positional arguments
find_positional(expr_call, index) ==
    IF index + 2 <= Len(expr_call.children)
    THEN Some(expr_call.children[index + 2]) ELSE None

\* is_setattr_call
is_setattr_call(expr) == expr.kind = "Name" /\ expr.text = "setattr"

\* the member named name of all_members(first_ty)
FindMember(members, name) ==
    IF \E member \in members : member.name = name
    THEN Some((CHOOSE member \in members : member.name = name).ty)
    ELSE None

\* check_setattr_call reporting a name that is no member of the type
check_setattr_call_ReportsUnknownMember(model, expr_call) ==
    LET first_argument == find_positional(expr_call, 0)
        second_argument == find_positional(expr_call, 1)
        third_argument == find_positional(expr_call, 2)
    IN  IF first_argument = None \/ second_argument = None \/ third_argument = None
        THEN <<>>
        ELSE IF second_argument[1].kind # "StringLiteral" THEN <<>>
        ELSE
        LET first_ty == inferred_type(first_argument[1])
            members == all_members(model, first_ty)
            type_of_attribute == FindMember(members, second_argument[1].text)
            value_type == inferred_type(third_argument[1])
        IN  IF type_of_attribute = None
            THEN <<report_invalid_setattr(expr_call, UnknownT, value_type)>>
            ELSE
            LET current_attribute_promotion == promote_literals(type_of_attribute[1])
            IN  IF ~is_assignable_to(value_type, current_attribute_promotion)
                THEN <<report_invalid_setattr(expr_call, current_attribute_promotion,
                                              value_type)>>
                ELSE <<>>

\* check_setattr_call comparing with the member's type as declared
check_setattr_call_NoPromotion(model, expr_call) ==
    LET first_argument == find_positional(expr_call, 0)
        second_argument == find_positional(expr_call, 1)
        third_argument == find_positional(expr_call, 2)
    IN  IF first_argument = None \/ second_argument = None \/ third_argument = None
        THEN <<>>
        ELSE IF second_argument[1].kind # "StringLiteral" THEN <<>>
        ELSE
        LET first_ty == inferred_type(first_argument[1])
            members == all_members(model, first_ty)
            type_of_attribute == FindMember(members, second_argument[1].text)
        IN  IF type_of_attribute = None THEN <<>>
            ELSE
            LET value_type == inferred_type(third_argument[1])
            IN  IF ~is_assignable_to(value_type, type_of_attribute[1])
                THEN <<report_invalid_setattr(expr_call, type_of_attribute[1],
                                              value_type)>>
                ELSE <<>>

\* check_setattr_call
check_setattr_call(model, expr_call) ==
    LET first_argument == find_positional(expr_call, 0)
        second_argument == find_positional(expr_call, 1)
        third_argument == find_positional(expr_call, 2)
    IN  IF first_argument = None \/ second_argument = None \/ third_argument = None
        THEN <<>>
        ELSE IF second_argument[1].kind # "StringLiteral" THEN <<>>
        ELSE
        LET first_ty == inferred_type(first_argument[1])
            members == all_members(model, first_ty)
            type_of_attribute == FindMember(members, second_argument[1].text)
        IN  IF type_of_attribute = None THEN <<>>
            ELSE
            LET current_attribute_promotion == promote_literals(type_of_attribute[1])
                value_type == inferred_type(third_argument[1])
            IN  IF ~is_assignable_to(value_type, current_attribute_promotion)
                THEN <<report_invalid_setattr(expr_call, current_attribute_promotion,
                                              value_type)>>
                ELSE <<>>

\* check_call_expression
check_call_expression(model, expr_call) ==
    IF is_setattr_call(expr_call.children[1])
    THEN check_setattr_call(model, expr_call)
    ELSE
    LET func_ty == inferred_type(expr_call.children[1])
    IN  IF func_ty.t # "FunctionLiteral" THEN <<>>
        ELSE IF ~is_known(model, func_ty, "Cast") THEN <<>>
        ELSE
        LET first_argument == find_positional(expr_call, 0)
            second_argument == find_positional(expr_call, 1)
        IN  IF first_argument = None \/ second_argument = None THEN <<>>
            ELSE
            LET value_type == inferred_type(second_argument[1])
                casting_type == inferred_type(first_argument[1])
                current_promotion == promote_literals(casting_type)
            IN  IF ~is_assignable_to(value_type, current_promotion)
                THEN <<report_typing_cast_used(expr_call.children[1])>>
                ELSE <<>>

\* Variable parts of attribute names the files of the model use.
AttributeSuffixes == {"secret", "x"}

\* is_mangled_dunder_variable: attr_name starts with "_<class_name>__" and is
\* longer than that prefix
is_mangled_dunder_variable(attr_name, class_name) ==
    LET expected_prefix == ("_" \o class_name) \o "__"
    IN  \E variable \in AttributeSuffixes : attr_name = expected_prefix \o variable

\* check_possibly_mangled_dunder_variable_access
check_possibly_mangled_dunder_variable_access(expr_attribute) ==
    LET inferred == inferred_type(expr_attribute.children[1])
        class_name ==
            CASE inferred.t = "TypeVar" ->
                     IF inferred.args = <<>> THEN None
                     ELSE Some(inferred.args[1].name)
              [] inferred.t = "NominalInstance" -> Some(inferred.name)
              [] OTHER -> None
    IN  IF class_name = None THEN <<>>
        ELSE IF is_mangled_dunder_variable(expr_attribute.text, class_name[1])
        THEN <<report_mangled_dunder_instance_variable(expr_attribute,
                                                       expr_attribute.text)>>
        ELSE <<>>

\* check_attribute_expression
check_attribute_expression(expr_attribute) ==
    check_possibly_mangled_dunder_variable_access(expr_attribute)

\* check_expr
check_expr(model, expr) ==
    CASE expr.kind = "Call" -> check_call_expression(model, expr)
      [] expr.kind = "Attribute" -> check_attribute_expression(expr)
      [] OTHER -> <<>>

(***************************************************************************)
(* checker/ast/mod.rs: ASTChecker, a SourceOrderVisitor                    *)
(***************************************************************************)
RECURSIVE ASTVisitExpr(_, _)
RECURSIVE ASTVisitExprs(_, _)
RECURSIVE ASTVisitStmt(_, _)
RECURSIVE ASTVisitBody(_, _)
RECURSIVE ASTVisitParams(_, _)
RECURSIVE ASTVisitClauses(_, _)
RECURSIVE ASTVisitDecorators(_, _)

ASTVisitExprs(model, exprs) ==
    IF exprs = <<>> THEN <<>>
    ELSE ASTVisitExpr(model, Head(exprs)) \o ASTVisitExprs(model, Tail(exprs))

\* ASTChecker::visit_expr: check_expr, then source_order::walk_expr
ASTVisitExpr(model, expr) ==
    check_expr(model, expr) \o ASTVisitExprs(model, expr.children)

ASTVisitDecorators(model, decorators) ==
    IF decorators = <<>> THEN <<>>
    ELSE ASTVisitExpr(model, Head(decorators).expression)
         \o ASTVisitDecorators(model, Tail(decorators))

\* walk_parameters: each parameter's annotation, then its default
ASTVisitParams(model, params) ==
    IF params = <<>> THEN <<>>
    ELSE ASTVisitExprs(model, Head(params).annotation)
         \o ASTVisitExprs(model, Head(params).default)
         \o ASTVisitParams(model, Tail(params))

\* walk_elif_else_clause: the clause's test, then its body
ASTVisitClauses(model, clauses) ==
    IF clauses = <<>> THEN <<>>
    ELSE ASTVisitExprs(model, Head(clauses).test)
         \o ASTVisitBody(model, Head(clauses).body)
         \o ASTVisitClauses(model, Tail(clauses))

\* source_order::walk_stmt: the children of a statement in source order
ASTWalkStmt(model, stmt) ==
    ASTVisitDecorators(model, stmt.decorators)
    \o ASTVisitParams(model, stmt.params)
    \o ASTVisitExprs(model, stmt.returns)
    \o ASTVisitExprs(model, stmt.targets)
    \o ASTVisitExprs(model, stmt.annotation)
    \o ASTVisitExprs(model, stmt.value)
    \o ASTVisitExprs(model, stmt.test)
    \o ASTVisitBody(model, stmt.body)
    \o ASTVisitClauses(model, stmt.clauses)

\* visit_stmt walking the children before checking the statement
ASTVisitStmt_ChildrenFirst(model, stmt) ==
    ASTWalkStmt(model, stmt) \o check_statement(model, stmt)

\* ASTChecker::visit_stmt: check_statement, then source_order::walk_stmt
ASTVisitStmt(model, stmt) ==
    check_statement(model, stmt) \o ASTWalkStmt(model, stmt)

\* visit_body
ASTVisitBody(model, stmts) ==
    IF stmts = <<>> THEN <<>>
    ELSE ASTVisitStmt(model, Head(stmts)) \o ASTVisitBody(model, Tail(stmts))

\* check_ast: the report calls of the walk over the file's suite, in order
check_ast(file) == ASTVisitBody(file, file.suite)

(***************************************************************************)
(* checker/comments/mod.rs: the comment scan.  Text is a sequence of       *)
(* one-character strings.                                                  *)
(***************************************************************************)
TYPE_CHECKING_DIRECTIVES ==
    << <<"t", "y", "p", "e", ":", " ", "i", "g", "n", "o", "r", "e">>,
       <<"p", "y", "r", "i", "g", "h", "t", ":", " ", "i", "g", "n", "o", "r", "e">>,
       <<"t", "y", ":", " ", "i", "g", "n", "o", "r", "e">>,
       <<"p", "y", "r", "e", "f", "l", "y", ":", " ", "i", "g", "n", "o", "r", "e">> >>

Whitespace == {" ", "\t"}

\* str::starts_with
starts_with(text, prefix) ==
    /\ Len(prefix) <= Len(text)
    /\ SubSeq(text, 1, Len(prefix)) = prefix

\* str::find: the 0-based offset of the first occurrence of pattern
find(text, pattern) ==
    LET hits == {i \in 0..(Len(text) - Len(pattern)) :
                    SubSeq(text, i + 1, i + Len(pattern)) = pattern}
    IN  IF hits = {} THEN None
        ELSE Some(CHOOSE i \in hits : \A j \in hits : i <= j)

\* str::trim_start
RECURSIVE trim_start(_)
trim_start(text) ==
    IF text # <<>> /\ Head(text) \in Whitespace THEN trim_start(Tail(text)) ELSE text

\* str::trim_end
RECURSIVE trim_end(_)
trim_end(text) ==
    IF text # <<>> /\ text[Len(text)] \in Whitespace
    THEN trim_end(SubSeq(text, 1, Len(text) - 1)) ELSE text

\* str::trim
trim(text) == trim_end(trim_start(text))

\* the loop of find_type_checking_directive over TYPE_CHECKING_DIRECTIVES
RECURSIVE FirstDirective(_, _)
RECURSIVE FirstDirective_ExactMatch(_, _)
FirstDirective_ExactMatch(comment_content, directives) ==
    IF directives = <<>> THEN None
    ELSE IF comment_content = Head(directives) THEN Some(Head(directives))
    ELSE FirstDirective_ExactMatch(comment_content, Tail(directives))

FirstDirective(comment_content, directives) ==
    IF directives = <<>> THEN None
    ELSE IF starts_with(comment_content, Head(directives)) THEN Some(Head(directives))
    ELSE FirstDirective(comment_content, Tail(directives))

\* find_type_checking_directive
find_type_checking_directive(line) ==
    LET comment_start == find(line, <<"#", " ">>)
    IN  IF comment_start = None THEN None
        ELSE LET comment_content ==
                     trim(SubSeq(line, comment_start[1] + 2 + 1, Len(line)))
             IN  FirstDirective(comment_content, TYPE_CHECKING_DIRECTIVES)

\* the loop of check_comments over the comment ranges
RECURSIVE CommentReports(_)
CommentReports(comments) ==
    IF comments = <<>> THEN <<>>
    ELSE LET comment == Head(comments)
             directive == find_type_checking_directive(comment.text)
         IN  (IF IsSome(directive)
              THEN <<report_type_checking_directive_used(comment.range, directive[1])>>
              ELSE <<>>)
             \o CommentReports(Tail(comments))

\* check_comments scanning the comments whether or not the text was read
check_comments_IgnoresReadFailure(file) == CommentReports(file.comments)

\* check_comments: nothing when the source text cannot be read
check_comments(file) ==
    IF ~file.readable THEN <<>> ELSE CommentReports(file.comments)

(***************************************************************************)
(* The files of the checked projects: for each file the parsed suite with  *)
(* the answers of the semantic model (inferred types, function signatures, *)
(* members), the comment tokens with their text, and whether the source    *)
(* text can be read.                                                       *)
(***************************************************************************)
Name(range, ty, text) == Expr("Name", range, ty, text, <<>>)

Comment(range, text) == [range |-> range, text |-> text]

SourceFile(path, readable, suite, comments, functions, members) ==
    [path |-> path, readable |-> readable, suite |-> suite, comments |-> comments,
     functions |-> functions, members |-> members]

\*   def foo(x: Any) -> Any: ...  # type: ignore[foo]
\*   # note
AnyFile ==
    SourceFile("any.py", TRUE,
        << FunctionDef(<<0, 27>>, FunctionLiteral("foo"), <<>>,
               << Param(Some(Name(<<11, 14>>, AnyT, "Any")), None) >>,
               Some(Name(<<19, 22>>, AnyT, "Any")),
               << ExprStmt(<<24, 27>>,
                           Expr("EllipsisLiteral", <<24, 27>>, UnknownT, "...", <<>>)) >>) >>,
        << Comment(<<29, 48>>, <<"#", " ", "t", "y", "p", "e", ":", " ", "i", "g", "n", "o", "r", "e", "[", "f", "o", "o", "]">>),
           Comment(<<49, 55>>, <<"#", " ", "n", "o", "t", "e">>) >>,
        "foo" :> FunctionInfo(<<>>, Some(Implementation(<<Some(AnyT)>>, <<None>>)), ""),
        <<>>)

OverloadName(range) == Name(range, FunctionLiteral("overload"), "overload")

FooOverloads ==
    << Overload(<<Decorator(<<0, 9>>, OverloadName(<<1, 9>>))>>, Some(StrT)),
       Overload(<<Decorator(<<38, 47>>, OverloadName(<<39, 47>>))>>, Some(IntT)) >>

\*   @overload
\*   def foo(x: int) -> str: ...
\*   @overload
\*   def foo(x: str) -> int: ...
\*   def foo(x: int | str) -> int | str:
\*       return b""
OverloadFile ==
    SourceFile("overload.py", TRUE,
        << FunctionDef(<<0, 37>>, FunctionLiteral("foo@1"),
               <<Decorator(<<0, 9>>, OverloadName(<<1, 9>>))>>,
               << Param(Some(Name(<<21, 24>>, IntT, "int")), None) >>,
               Some(Name(<<29, 32>>, StrT, "str")),
               << ExprStmt(<<34, 37>>,
                           Expr("EllipsisLiteral", <<34, 37>>, UnknownT, "...", <<>>)) >>),
           FunctionDef(<<38, 75>>, FunctionLiteral("foo@2"),
               <<Decorator(<<38, 47>>, OverloadName(<<39, 47>>))>>,
               << Param(Some(Name(<<59, 62>>, StrT, "str")), None) >>,
               Some(Name(<<67, 70>>, IntT, "int")),
               << ExprStmt(<<72, 75>>,
                           Expr("EllipsisLiteral", <<72, 75>>, UnknownT, "...", <<>>)) >>),
           FunctionDef(<<76, 126>>, FunctionLiteral("foo"), <<>>,
               << Param(Some(Expr("BinOp", <<87, 96>>, UnionT(<<IntT, StrT>>), "|",
                                  << Name(<<87, 90>>, IntT, "int"),
                                     Name(<<93, 96>>, StrT, "str") >>)), None) >>,
               Some(Expr("BinOp", <<101, 110>>, UnionT(<<IntT, StrT>>), "|",
                         << Name(<<101, 104>>, IntT, "int"),
                            Name(<<107, 110>>, StrT, "str") >>)),
               << Return(<<116, 126>>,
                         Some(Expr("BytesLiteral", <<123, 126>>, BytesLiteral, "",
                                   <<>>))) >>) >>,
        <<>>,
        ("overload" :> FunctionInfo(<<>>, None, "Overload"))
        @@ ("foo@1" :> FunctionInfo(SubSeq(FooOverloads, 1, 1), None, ""))
        @@ ("foo@2" :> FunctionInfo(FooOverloads, None, ""))
        @@ ("foo" :> FunctionInfo(FooOverloads,
                Some(Implementation(<<Some(UnionT(<<IntT, StrT>>))>>, <<None>>)), "")),
        <<>>)

\*   value = cast(int, "s")  # pyright: ignore
\*   f.__code__ = g.__code__
MutateFile ==
    SourceFile("mutate.py", TRUE,
        << Assign(<<0, 22>>, <<Name(<<0, 5>>, IntT, "value")>>,
               Expr("Call", <<8, 22>>, IntT, "",
                    << Name(<<8, 12>>, FunctionLiteral("cast"), "cast"),
                       Name(<<13, 16>>, IntT, "int"),
                       Expr("StringLiteral", <<18, 21>>, StringLiteral, "s", <<>>) >>),
               {}),
           Assign(<<42, 65>>,
               << Expr("Attribute", <<42, 52>>, UnknownT, "__code__",
                       <<Name(<<42, 43>>, FunctionLiteral("f"), "f")>>) >>,
               Expr("Attribute", <<55, 65>>, UnknownT, "__code__",
                    <<Name(<<55, 56>>, FunctionLiteral("g"), "g")>>),
               {}) >>,
        << Comment(<<24, 41>>, <<"#", " ", "p", "y", "r", "i", "g", "h", "t", ":", " ", "i", "g", "n", "o", "r", "e">>) >>,
        ("cast" :> FunctionInfo(<<>>, None, "Cast"))
        @@ ("f" :> FunctionInfo(<<>>, Some(Implementation(<<>>, <<>>)), ""))
        @@ ("g" :> FunctionInfo(<<>>, Some(Implementation(<<>>, <<>>)), "")),
        <<>>)

\*   x: Any = 1  #  ty: ignore
\* in a file whose text cannot be read back when the comments are scanned
LockedFile ==
    SourceFile("locked.py", FALSE,
        << AnnAssign(<<0, 10>>, Name(<<0, 1>>, AnyT, "x"), Name(<<3, 6>>, AnyT, "Any"),
                     Some(Expr("NumberLiteral", <<9, 10>>, IntLiteral, "1", <<>>))) >>,
        << Comment(<<12, 25>>, <<"#", " ", " ", "t", "y", ":", " ", "i", "g", "n", "o", "r", "e">>) >>,
        <<>>,
        <<>>)

SourceFiles == {AnyFile, OverloadFile, MutateFile, LockedFile}

Paths == {file.path : file \in SourceFiles}

\* the parsed module and semantic model of a path
FileAt(path) == CHOOSE file \in SourceFiles : file.path = path

(***************************************************************************)
(* context.rs: Context, LintDiagnosticGuardBuilder, LintDiagnosticGuard    *)
(***************************************************************************)
\* Diagnostic::new
Diagnostic(id, sev, message) ==
    [id |-> id, severity |-> sev, message |-> message,
     annotations |-> <<>>, subs |-> <<>>]

\* Span::from(file).with_range(range)
Span(file, range) == [file |-> file, range |-> range]

\* Annotation::primary
PrimaryAnnotation(span) == [span |-> span, is_primary |-> TRUE, message |-> None]

\* Diagnostic::annotate
annotate(diag, annotation) ==
    [diag EXCEPT !.annotations = Append(@, annotation)]

\* SubDiagnostic::new
SubDiagnostic(sev, message) == [severity |-> sev, message |-> message]

\* Diagnostic::sub
sub(diag, sub_diagnostic) == [diag EXCEPT !.subs = Append(@, sub_diagnostic)]

\* Diagnostic::info
info(diag, message) == sub(diag, SubDiagnostic("Info", message))

ContextNew_KeepsDiagnostics(path) ==
    [file |-> path,
     diagnostics |-> IF path \in DOMAIN previous_run THEN previous_run[path] ELSE <<>>]

\* Context::new: a fresh, empty diagnostics sink for the file
ContextNew(path) == [file |-> path, diagnostics |-> <<>>]

BuilderNew_DefaultsWhenUnselected(sel, file, lint, range) ==
    LET entry == SelGet(sel, RuleIdOf(lint))
        own == SeverityTryFrom(lint.default_level)
    IN  IF IsSome(entry)
        THEN Some([id |-> lint.name, severity |-> entry[1][1], source |-> entry[1][2],
                   primary_span |-> Span(file, range)])
        ELSE Some([id |-> lint.name,
                   severity |-> IF IsSome(own) THEN own[1] ELSE "Info",
                   source |-> "Default", primary_span |-> Span(file, range)])

\* LintDiagnosticGuardBuilder::new (Context::report_lint): None when the
\* selection has no entry for the lint
BuilderNew(sel, file, lint, range) ==
    LET entry == SelGet(sel, RuleIdOf(lint))
    IN  IF entry = None THEN None
        ELSE Some([id |-> lint.name, severity |-> entry[1][1], source |-> entry[1][2],
                   primary_span |-> Span(file, range)])

\* LintDiagnosticGuardBuilder::into_diagnostic
into_diagnostic(lint_builder, message) ==
    [diag |-> Some(annotate(Diagnostic(lint_builder.id, lint_builder.severity, message),
                            PrimaryAnnotation(lint_builder.primary_span))),
     source |-> lint_builder.source]

\* the match on self.source in LintDiagnosticGuard::drop
ProvenanceText(source) ==
    CASE source = "Default" -> "is enabled by default"
      [] source = "Cli"     -> "was selected on the command line"
      [] source = "File"    -> "was selected in the configuration file"

ProvenanceSub(diag, source) ==
    SubDiagnostic("Info", <<"rule", diag.id, ProvenanceText(source)>>)

GuardDrop_NoProvenance(diagnostics, guard) ==
    Append(diagnostics, guard.diag[1])

\* Drop for LintDiagnosticGuard: take the diagnostic, add the provenance
\* sub-diagnostic and push it onto the context's diagnostics
GuardDrop(diagnostics, guard) ==
    LET diag == guard.diag[1]
    IN  Append(diagnostics, sub(diag, ProvenanceSub(diag, guard.source)))

(***************************************************************************)
(* checker/mod.rs: check_file and check_project.  Every file of the        *)
(* project is one check_file task; at most Workers tasks run at a time and *)
(* their steps interleave.                                                 *)
(***************************************************************************)
\* check_tokens(&context): the comment scan
check_tokens(file) == check_comments(file)

CheckFilePasses_CommentsFirst == <<"check_tokens", "check_ast">>

\* check_file: the passes over the file, in the order they are called
CheckFilePasses == <<"check_ast", "check_tokens">>

\* the report_lint calls a pass makes, in order
PassCalls(file, pass) ==
    IF pass = "check_ast" THEN check_ast(file) ELSE check_tokens(file)

\* the options of the command line and configuration file
ProjectOptions ==
    { <<>>,
      << [name |-> "typing-any-used", level |-> "Ignore", source |-> "File"],
         [name |-> "type-checking-directive-used", level |-> "Error",
          source |-> "Cli"] >>,
      << [name |-> "no-such-rule", level |-> "Error", source |-> "Cli"],
         [name |-> "typing-overload-used", level |-> "Error", source |-> "File"] >> }

\* project.files(): up to MaxFiles distinct files, in any order
Projects ==
    UNION { {fs \in [1..n -> Paths] : \A i, j \in 1..n : fs[i] = fs[j] => i = j} :
            n \in 0..MaxFiles }

\* a check_file call that has not started
PendingTask(path) ==
    [pc |-> "pending", pass |-> 0, ctx |-> ContextNew(path), calls |-> <<>>,
     current |-> None, lint_builder |-> None, guard |-> None,
     started |-> 0, made |-> 0, pushed |-> <<>>, skipped |-> 0]

Idle(task) == task.current = None /\ task.lint_builder = None /\ task.guard = None

Running == {i \in 1..Len(tasks) : tasks[i].pc = "running"}

CollectOrder_Completion(n, completion) == completion

\* into_par_iter().flat_map(..).collect(): the results are put together in the
\* order of the input Vec, whatever order the tasks completed in
CollectOrder(n, completion) == [i \in 1..n |-> i]

RECURSIVE FlatMap(_, _)
FlatMap(results, order) ==
    IF order = <<>> THEN <<>>
    ELSE results[Head(order)] \o FlatMap(results, Tail(order))

Init ==
    \E options \in ProjectOptions, project \in Projects :
        LET result == from_rules_selection(default_rule_registry, options)
        IN  /\ reg_calls = register_rules
            /\ builder = RunCalls(EmptyBuilder, register_rules)
            /\ registry = default_rule_registry
            /\ phase = "selected"
            /\ selection = result.sel
            /\ applied = options
            /\ config_diags = result.diags
            /\ files = project
            /\ tasks = <<>>
            /\ finished = <<>>
            /\ all_diagnostics = None
            /\ runs = 0
            /\ previous_run = <<>>
            /\ NoTest

svars == <<builder, reg_calls, registry, selection, applied, config_diags, files,
           test_input, test_results, test_diagnostics, exit_status>>

\* check_project is called: one check_file task per file
CheckProject ==
    /\ phase \in {"selected", "checked"}
    /\ runs < MaxRuns
    /\ phase' = "checking"
    /\ runs' = runs + 1
    /\ tasks' = [i \in 1..Len(files) |-> PendingTask(files[i])]
    /\ finished' = <<>>
    /\ all_diagnostics' = None
    /\ previous_run' = IF phase = "checked"
                       THEN [path \in Range(files) |->
                               tasks[CHOOSE i \in 1..Len(files) : files[i] = path]
                                   .ctx.diagnostics]
                       ELSE previous_run
    /\ UNCHANGED svars

\* a worker picks up a file: check_file creates the Context and enters the
\* first pass
StartFile(i) ==
    /\ phase = "checking"
    /\ i \in 1..Len(tasks)
    /\ tasks[i].pc = "pending"
    /\ Cardinality(Running) < Workers
    /\ tasks' = [tasks EXCEPT ![i] =
                    [@ EXCEPT !.pc = "running", !.pass = 1,
                              !.ctx = ContextNew(files[i]),
                              !.calls = PassCalls(FileAt(files[i]), CheckFilePasses[1]),
                              !.started = @ + 1]]
    /\ UNCHANGED <<phase, finished, all_diagnostics, runs, previous_run>>
    /\ UNCHANGED svars

\* a report_* function calls Context::report_lint; it returns when there is no
\* builder
ReportLint(i) ==
    /\ i \in Running
    /\ tasks[i].calls # <<>>
    /\ Idle(tasks[i])
    /\ LET call == Head(tasks[i].calls)
           made_builder == BuilderNew(selection, tasks[i].ctx.file, call.rule, call.range)
       IN  tasks' = [tasks EXCEPT ![i] =
               IF made_builder = None
               THEN [@ EXCEPT !.calls = Tail(@), !.skipped = @ + 1]
               ELSE [@ EXCEPT !.calls = Tail(@), !.current = Some(call),
                              !.lint_builder = made_builder]]
    /\ UNCHANGED <<phase, finished, all_diagnostics, runs, previous_run>>
    /\ UNCHANGED svars

\* builder.into_diagnostic(message)
IntoDiagnostic(i) ==
    /\ i \in Running
    /\ tasks[i].lint_builder # None
    /\ tasks' = [tasks EXCEPT ![i] =
                    [@ EXCEPT !.guard = Some(into_diagnostic(tasks[i].lint_builder[1],
                                                             tasks[i].current[1].message)),
                              !.lint_builder = None,
                              !.made = @ + 1]]
    /\ UNCHANGED <<phase, finished, all_diagnostics, runs, previous_run>>
    /\ UNCHANGED svars

\* diagnostic.info(..) through the guard's DerefMut
GuardInfo(i) ==
    /\ i \in Running
    /\ tasks[i].guard # None
    /\ tasks[i].current[1].infos # <<>>
    /\ LET guard == tasks[i].guard[1]
           call == tasks[i].current[1]
       IN  tasks' = [tasks EXCEPT ![i] =
               [@ EXCEPT !.guard = Some([guard EXCEPT !.diag =
                                           Some(info(guard.diag[1], Head(call.infos)))]),
                         !.current = Some([call EXCEPT !.infos = Tail(@)])]]
    /\ UNCHANGED <<phase, finished, all_diagnostics, runs, previous_run>>
    /\ UNCHANGED svars

\* the guard goes out of scope at the end of the report_* function
DropGuard(i) ==
    /\ i \in Running
    /\ tasks[i].guard # None
    /\ tasks[i].current[1].infos = <<>>
    /\ tasks' = [tasks EXCEPT ![i] =
                    [@ EXCEPT !.ctx.diagnostics = GuardDrop(@, tasks[i].guard[1]),
                              !.pushed = Append(@, tasks[i].made),
                              !.guard = None,
                              !.current = None]]
    /\ UNCHANGED <<phase, finished, all_diagnostics, runs, previous_run>>
    /\ UNCHANGED svars

\* a pass returns and check_file calls the next one
NextPass(i) ==
    /\ i \in Running
    /\ tasks[i].calls = <<>>
    /\ Idle(tasks[i])
    /\ tasks[i].pass < Len(CheckFilePasses)
    /\ tasks' = [tasks EXCEPT ![i] =
                    [@ EXCEPT !.pass = @ + 1,
                              !.calls = PassCalls(FileAt(files[i]),
                                                  CheckFilePasses[tasks[i].pass + 1])]]
    /\ UNCHANGED <<phase, finished, all_diagnostics, runs, previous_run>>
    /\ UNCHANGED svars

\* context.into_diagnostics(): check_file returns
IntoDiagnostics(i) ==
    /\ i \in Running
    /\ tasks[i].calls = <<>>
    /\ Idle(tasks[i])
    /\ tasks[i].pass = Len(CheckFilePasses)
    /\ tasks' = [tasks EXCEPT ![i] = [@ EXCEPT !.pc = "done"]]
    /\ finished' = Append(finished, i)
    /\ UNCHANGED <<phase, all_diagnostics, runs, previous_run>>
    /\ UNCHANGED svars

\* collect(): every task has returned; check_project returns all_diagnostics
Collect ==
    /\ phase = "checking"
    /\ \A i \in 1..Len(tasks) : tasks[i].pc = "done"
    /\ all_diagnostics' =
           Some(FlatMap([i \in 1..Len(tasks) |-> tasks[i].ctx.diagnostics],
                        CollectOrder(Len(tasks), finished)))
    /\ phase' = "checked"
    /\ UNCHANGED <<tasks, finished, runs, previous_run>>
    /\ UNCHANGED svars

Next ==
    \/ CheckProject
    \/ \E i \in 1..MaxFiles : StartFile(i)
    \/ \E i \in 1..MaxFiles : ReportLint(i)
    \/ \E i \in 1..MaxFiles : IntoDiagnostic(i)
    \/ \E i \in 1..MaxFiles : GuardInfo(i)
    \/ \E i \in 1..MaxFiles : DropGuard(i)
    \/ \E i \in 1..MaxFiles : NextPass(i)
    \/ \E i \in 1..MaxFiles : IntoDiagnostics(i)
    \/ Collect

Spec == Init /\ [][Next]_vars

(***************************************************************************)
(* check_file run on its own, start to end, on one thread.                 *)
(***************************************************************************)
RECURSIVE AddInfos(_, _)
AddInfos(guard, infos) ==
    IF infos = <<>> THEN guard
    ELSE AddInfos([guard EXCEPT !.diag = Some(info(guard.diag[1], Head(infos)))],
                  Tail(infos))

RECURSIVE ReportAll(_, _, _, _)
\* the report_* calls of one pass, each run to the drop of its guard
ReportAll(sel, path, calls, diagnostics) ==
    IF calls = <<>> THEN diagnostics
    ELSE LET call == Head(calls)
             made_builder == BuilderNew(sel, path, call.rule, call.range)
         IN  IF made_builder = None
             THEN ReportAll(sel, path, Tail(calls), diagnostics)
             ELSE ReportAll(sel, path, Tail(calls),
                      GuardDrop(diagnostics,
                                AddInfos(into_diagnostic(made_builder[1], call.message),
                                         call.infos)))

RECURSIVE RunPasses(_, _, _, _)
RunPasses(sel, file, passes, diagnostics) ==
    IF passes = <<>> THEN diagnostics
    ELSE RunPasses(sel, file, Tail(passes),
                   ReportAll(sel, file.path, PassCalls(file, Head(passes)),
                             diagnostics))

\* check_file on a parsed file
CheckSource(sel, file) ==
    RunPasses(sel, file, CheckFilePasses, ContextNew(file.path).diagnostics)

\* check_file
check_file(sel, path) == CheckSource(sel, FileAt(path))

(***************************************************************************)
(* Diagnostics of the checks: C1, C2, C8, C9, C10                          *)
(***************************************************************************)
RuleNamed(id) == CHOOSE rule \in RuleMetas : rule.name = id

ExpectedProvenance(source) ==
    CASE source = "Default" -> "is enabled by default"
      [] source = "Cli"     -> "was selected on the command line"
      [] source = "File"    -> "was selected in the configuration file"

IsProvenanceOf(sub_diagnostic, id, source) ==
    /\ sub_diagnostic.severity = "Info"
    /\ Len(sub_diagnostic.message) = 3
    /\ sub_diagnostic.message[1] = "rule"
    /\ sub_diagnostic.message[2] = id
    /\ sub_diagnostic.message[3] = ExpectedProvenance(source)

ProvenanceSubs(diag) ==
    {k \in 1..Len(diag.subs) :
        \E source \in RuleSources : IsProvenanceOf(diag.subs[k], diag.id, source)}

Emitted(i) == tasks[i].ctx.diagnostics

\* C1: every guard pushes its diagnostic onto the context exactly once, in
\* the order the guards were made, when it is dropped; a builder that has
\* not been turned into a diagnostic has pushed nothing; and every pushed
\* diagnostic carries exactly one provenance sub-diagnostic, whose text is
\* the one of the source the selection holds for the rule.
C1_GuardPushesOnceWithProvenance ==
    \A i \in 1..Len(tasks) :
        LET task == tasks[i]
        IN  /\ task.pushed = [k \in 1..Len(task.pushed) |-> k]
            /\ Len(Emitted(i)) = Len(task.pushed)
            /\ task.made = Len(task.pushed) + (IF task.guard # None THEN 1 ELSE 0)
            /\ \A k \in 1..Len(Emitted(i)) :
                   LET diag == Emitted(i)[k]
                       entry == SelGet(selection, RuleNamed(diag.id))
                   IN  /\ Cardinality(ProvenanceSubs(diag)) = 1
                       /\ entry # None
                       /\ IsProvenanceOf(diag.subs[Len(diag.subs)], diag.id, entry[1][2])

C1_Witness ==
    \E i \in 1..Len(tasks) :
        /\ tasks[i].pc = "done"
        /\ \E k \in 1..Len(Emitted(i)) :
               /\ Len(Emitted(i)[k].subs) = 2
               /\ IsProvenanceOf(Emitted(i)[k].subs[2], Emitted(i)[k].id, "Default")
        /\ \E k \in 1..Len(Emitted(i)) :
               IsProvenanceOf(Emitted(i)[k].subs[1], Emitted(i)[k].id, "Cli")

\* C2: no diagnostic is emitted for a rule that has no entry in the
\* selection, and every emitted diagnostic has the severity the selection
\* holds for its rule.
C2_OnlySelectedRulesAtSelectedSeverity ==
    \A i \in 1..Len(tasks) :
        \A k \in 1..Len(Emitted(i)) :
            LET diag == Emitted(i)[k]
            IN  /\ is_enabled(selection, RuleNamed(diag.id))
                /\ Some(diag.severity) = severity(selection, RuleNamed(diag.id))

C2_Witness ==
    \E i \in 1..Len(tasks) :
        /\ tasks[i].pc = "done"
        /\ tasks[i].skipped = 2
        /\ \E k \in 1..Len(Emitted(i)) :
               /\ Emitted(i)[k].severity = "Error"
               /\ RuleNamed(Emitted(i)[k].id).default_level = "Warn"

FileOrder == [i \in 1..Len(files) |-> i]

\* C9: check_project starts check_file once per file and returns the
\* check_file results put together in the order of the files: whatever the
\* interleaving and completion order of the tasks, every result is the one
\* check_file gives on its own and none is lost, repeated or reordered.
C9_CheckProjectConcatenates ==
    /\ \A i \in 1..Len(tasks) :
           /\ tasks[i].started <= 1
           /\ tasks[i].pc # "pending" => tasks[i].started = 1
           /\ tasks[i].pc = "done" => Emitted(i) = check_file(selection, files[i])
    /\ phase = "checked" =>
           /\ Len(tasks) = Len(files)
           /\ all_diagnostics =
                  Some(FlatMap([i \in 1..Len(files) |-> Emitted(i)], FileOrder))
           /\ all_diagnostics =
                  Some(FlatMap([i \in 1..Len(files) |-> check_file(selection, files[i])],
                               FileOrder))

C9_Witness ==
    /\ phase = "checked"
    /\ finished = <<2, 1>>
    /\ Emitted(1) # <<>>
    /\ Emitted(2) # <<>>

IsDirectiveDiagnostic(diag) == diag.id = TYPE_CHECKING_DIRECTIVE_USED.name

PrimaryRange(diag) == diag.annotations[1].span.range

\* C10: in a check_file result the diagnostics of the tree walk come before
\* those of the comment scan, the tree-walk diagnostics are those of the
\* enabled report calls in walk order, and the comment diagnostics are in
\* the source order of the comments.
C10_WalkBeforeCommentsInOrder ==
    \A i \in 1..Len(tasks) :
        tasks[i].pc = "done" =>
            LET diags == Emitted(i)
                IsWalk(diag) == ~IsDirectiveDiagnostic(diag)
                Enabled(call) == is_enabled(selection, call.rule)
                walk == SelectSeq(diags, IsWalk)
                expected == SelectSeq(check_ast(FileAt(files[i])), Enabled)
            IN  /\ \A a, b \in 1..Len(diags) :
                       (a < b /\ IsDirectiveDiagnostic(diags[a]))
                           => /\ IsDirectiveDiagnostic(diags[b])
                              /\ PrimaryRange(diags[a])[1] < PrimaryRange(diags[b])[1]
                /\ Len(walk) = Len(expected)
                /\ \A k \in 1..Len(walk) :
                       /\ walk[k].id = expected[k].rule.name
                       /\ PrimaryRange(walk[k]) = expected[k].range

C10_Witness ==
    \E i \in 1..Len(tasks) :
        /\ tasks[i].pc = "done"
        /\ Len(Emitted(i)) = 3
        /\ IsDirectiveDiagnostic(Emitted(i)[3])
        /\ PrimaryRange(Emitted(i)[3])[1] < PrimaryRange(Emitted(i)[2])[1]

(***************************************************************************)
(* Generated files: every annotation up to MaxDepth, in every checked      *)
(* position, in functions nested up to MaxNesting deep.                    *)
(***************************************************************************)
ClassLiteral(name) == Ty("ClassLiteral", name, <<>>)

Unplaced == <<0, 0>>

AnnotationLeaves ==
    { Name(Unplaced, AnyT, "Any"),
      Name(Unplaced, IntT, "int"),
      Name(Unplaced, TypeVarT("T", <<>>), "T"),
      Name(Unplaced, UnknownT, "Missing") }

\* list[e]
ListOf(e) ==
    Expr("Subscript", Unplaced, ListT, "",
         << Name(Unplaced, ClassLiteral("list"), "list"), e >>)

\* dict[k, e]
DictOf(k, e) ==
    Expr("Subscript", Unplaced, Instance("dict"), "",
         << Name(Unplaced, ClassLiteral("dict"), "dict"),
            Expr("Tuple", Unplaced, TupleT(<<>>), "", <<k, e>>) >>)

RECURSIVE Annotations(_)
Annotations(depth) ==
    IF depth = 0 THEN AnnotationLeaves
    ELSE LET inner == Annotations(depth - 1)
         IN  AnnotationLeaves
             \cup {ListOf(e) : e \in inner}
             \cup {DictOf(k, e) : k \in {Name(Unplaced, AnyT, "Any"),
                                         Name(Unplaced, IntT, "int")},
                                  e \in inner}

RECURSIVE Size(_)
RECURSIVE SizeAll(_)
\* number of nodes of an expression
Size(e) == 1 + SizeAll(e.children)

SizeAll(es) == IF es = <<>> THEN 0 ELSE Size(Head(es)) + SizeAll(Tail(es))

RECURSIVE Place(_, _)
RECURSIVE PlaceAll(_, _)
\* the expression as parsed at offset start: every node gets its own range
Place(e, start) ==
    [e EXCEPT !.range = <<start, start + Size(e)>>,
              !.children = PlaceAll(e.children, start + 1)]

PlaceAll(es, start) ==
    IF es = <<>> THEN <<>>
    ELSE <<Place(Head(es), start)>> \o PlaceAll(Tail(es), start + Size(Head(es)))

\* default values of a parameter: none, the mutable displays and
\* comprehensions, and others
DefaultKinds ==
    {"List", "Dict", "Set", "ListComp", "DictComp", "SetComp", "Tuple",
     "NoneLiteral", "Name"}

DefaultExprs ==
    {None} \cup {Some(Expr(kind, <<200, 202>>,
                           IF kind = "Name" THEN AnyT ELSE UnknownT, "", <<>>)) :
                 kind \in DefaultKinds}

PlainFunction == FunctionInfo(<<>>, Some(Implementation(<<>>, <<>>)), "")

\* the statement carrying the annotation
AnnotatedStmt(annotation, position, default) ==
    CASE position = "parameter" ->
             FunctionDef(<<50, 300>>, FunctionLiteral("f"), <<>>,
                 << Param(Some(Place(annotation, 100)), default) >>,
                 None, << Pass(<<290, 294>>) >>)
      [] position = "returns" ->
             FunctionDef(<<50, 300>>, FunctionLiteral("f"), <<>>, <<>>,
                 Some(Place(annotation, 100)), << Pass(<<290, 294>>) >>)
      [] position = "assignment" ->
             AnnAssign(<<50, 300>>, Name(<<50, 51>>, AnyT, "y"),
                 Place(annotation, 100),
                 Some(Name(<<200, 201>>, AnyT, "v")))

\* def f(x=<default>): pass
UnannotatedStmt(default) ==
    FunctionDef(<<50, 300>>, FunctionLiteral("f"), <<>>, << Param(None, default) >>,
                None, << Pass(<<290, 294>>) >>)

RECURSIVE Nest(_, _)
\* the statement inside depth enclosing definitions: a function, a method
\* of a class in a function, ...
Nest(stmt, depth) ==
    IF depth = 0 THEN stmt
    ELSE IF depth % 2 = 1
    THEN FunctionDef(<<depth, 400 - depth>>, FunctionLiteral("outer"), <<>>, <<>>,
                     None, << Nest(stmt, depth - 1) >>)
    ELSE ClassDef(<<depth, 400 - depth>>, << Nest(stmt, depth - 1) >>)

GeneratedFile(stmt, depth) ==
    SourceFile("annotation.py", TRUE, << Nest(stmt, depth) >>, <<>>,
               ("f" :> PlainFunction) @@ ("outer" :> PlainFunction), <<>>)

AnnotationFile(annotation, position, default, depth) ==
    GeneratedFile(AnnotatedStmt(annotation, position, default), depth)

AnnotationFiles ==
    {AnnotationFile(annotation, "parameter", default, depth) :
        annotation \in Annotations(MaxDepth), default \in DefaultExprs,
        depth \in 0..MaxNesting}
    \cup {AnnotationFile(annotation, position, None, depth) :
        annotation \in Annotations(MaxDepth),
        position \in {"returns", "assignment"}, depth \in 0..MaxNesting}
    \cup {GeneratedFile(UnannotatedStmt(default), depth) :
        default \in DefaultExprs, depth \in 0..MaxNesting}

(***************************************************************************)
(* cli/mod.rs: the check command.  It builds the rule selection from the   *)
(* options, calls check_file on every file of the project in turn, prints  *)
(* the diagnostics and returns its ExitStatus.                             *)
(***************************************************************************)
ExitStatuses == {"Success", "Failure", "Error"}

\* the status test returns after printing the diagnostics
TestExitStatus(diagnostics) == "Success"

\* the projects the check command is run on
\* Generated comments: a start, a body and a rest
CommentStarts ==
    { <<"#", " ">>,
      <<"#">>,
      <<"#", " ", " ">>,
      <<"#", "#", " ">> }

CommentBodies ==
    {TYPE_CHECKING_DIRECTIVES[i] : i \in 1..Len(TYPE_CHECKING_DIRECTIVES)}
    \cup { <<"n", "o", "t", "e">>,
           <<"T", "y", "p", "e", ":", " ", "i", "g", "n", "o", "r", "e">>,
           <<"t", "y", "p", "e", ":", "i", "g", "n", "o", "r", "e">>,
           <<"i", "g", "n", "o", "r", "e", " ", "t", "y", "p", "e", ":", " ", "i", "g", "n", "o", "r", "e">> }

CommentRests ==
    { <<>>,
      <<"[", "f", "o", "o", "]">>,
      <<" ", " ">>,
      <<" ", "#", " ", "t", "y", ":", " ", "i", "g", "n", "o", "r", "e">> }

CommentTexts ==
    {start \o body \o rest :
        start \in CommentStarts, body \in CommentBodies, rest \in CommentRests}

\*   pass  <comment>
CommentFile(text) ==
    SourceFile("comment.py", TRUE, << Pass(<<0, 4>>) >>,
               << Comment(<<6, 6 + Len(text)>>, text) >>, <<>>, <<>>)

CommentFiles == {CommentFile(text) : text \in CommentTexts}

\* Generated overloaded functions: the overloads' return types and the
\* implementation's body
\* the return types of the overloads, None for an overload without a return
\* annotation
OverloadReturnTypes ==
    { << Some(StrT), Some(IntT) >>,
      << Some(StrT), None >>,
      << None >>,
      << Some(AnyT), Some(IntT) >>,
      << Some(UnknownT) >>,
      << Some(UnionT(<<IntT, NoneT>>)) >> }

\* return b"", return 1 and a bare return
ReturnLeaves ==
    { Return(Unplaced, Some(Expr("BytesLiteral", Unplaced, BytesLiteral, "", <<>>))),
      Return(Unplaced, Some(Expr("NumberLiteral", Unplaced, IntLiteral, "1", <<>>))),
      Return(Unplaced, None) }

InnerDef(body) ==
    FunctionDef(Unplaced, FunctionLiteral("inner"), <<>>, <<>>, None, body)

IfTrue(body) ==
    If(Unplaced, Name(Unplaced, Instance("bool"), "flag"), body, <<>>)

RECURSIVE Bodies(_)
\* bodies with function definitions nested up to depth deep: a return, a
\* return before or after a nested definition, an if statement
Bodies(depth) ==
    IF depth = 0 THEN {<<r>> : r \in ReturnLeaves}
    ELSE LET inner == Bodies(depth - 1)
         IN  {<<r>> : r \in ReturnLeaves}
             \cup {<<InnerDef(b), r>> : b \in inner, r \in ReturnLeaves}
             \cup {<<r, InnerDef(b)>> : b \in inner, r \in ReturnLeaves}
             \cup {<<IfTrue(b)>> : b \in inner}

RECURSIVE StmtSize(_)
RECURSIVE BodySize(_)
\* room for a statement: itself, its value or test, its annotation or its
\* parameter's, its return annotation, and its body
StmtSize(stmt) == 4 + BodySize(stmt.body)

BodySize(stmts) == IF stmts = <<>> THEN 0 ELSE StmtSize(Head(stmts)) + BodySize(Tail(stmts))

PlaceOption(option, start) ==
    IF option = None THEN None ELSE Some(Place(option[1], start))

RECURSIVE PlaceStmt(_, _)
RECURSIVE PlaceBody(_, _)
\* the statement as parsed at offset start: every statement gets its own range
PlaceStmt(stmt, start) ==
    [stmt EXCEPT !.range = <<start, start + StmtSize(stmt)>>,
                 !.value = PlaceOption(stmt.value, start + 1),
                 !.test = PlaceOption(stmt.test, start + 1),
                 !.annotation = PlaceOption(stmt.annotation, start + 2),
                 !.params = [i \in 1..Len(stmt.params) |->
                                Param(PlaceOption(stmt.params[i].annotation, start + 2),
                                      stmt.params[i].default)],
                 !.returns = PlaceOption(stmt.returns, start + 3),
                 !.body = PlaceBody(stmt.body, start + 4)]

PlaceBody(stmts, start) ==
    IF stmts = <<>> THEN <<>>
    ELSE <<PlaceStmt(Head(stmts), start)>>
         \o PlaceBody(Tail(stmts), start + StmtSize(Head(stmts)))

OverloadNames == << "foo@1", "foo@2" >>

OverloadsOf(return_types) ==
    [i \in 1..Len(return_types) |->
        Overload(<<Decorator(<<1000 * i, 1000 * i + 9>>,
                             OverloadName(<<1000 * i + 1, 1000 * i + 9>>))>>,
                 return_types[i])]

\* @overload def foo(..) -> <return type>: ...
OverloadDef(i, overload) ==
    FunctionDef(<<1000 * i, 1000 * i + 40>>, FunctionLiteral(OverloadNames[i]),
        overload.decorators, <<>>,
        IF overload.return_ty = None THEN None
        ELSE Some(Name(<<1000 * i + 30, 1000 * i + 33>>, overload.return_ty[1],
                       overload.return_ty[1].name)),
        << ExprStmt(<<1000 * i + 35, 1000 * i + 38>>,
                    Expr("EllipsisLiteral", <<1000 * i + 35, 1000 * i + 38>>,
                         UnknownT, "...", <<>>)) >>)

OverloadedFile(return_types, body) ==
    LET overloads == OverloadsOf(return_types)
    IN  SourceFile("overloaded.py", TRUE,
            [i \in 1..Len(overloads) |-> OverloadDef(i, overloads[i])]
            \o << FunctionDef(<<3000, 3100 + BodySize(body)>>, FunctionLiteral("foo"),
                              <<>>, <<>>, None, PlaceBody(body, 3100)) >>,
            <<>>,
            [name \in {"overload", "foo", "inner"} \cup {OverloadNames[i] : i \in 1..Len(overloads)} |->
                CASE name = "overload" -> FunctionInfo(<<>>, None, "Overload")
                  [] name = "foo" -> FunctionInfo(overloads, Some(Implementation(<<>>, <<>>)), "")
                  [] name = "inner" -> PlainFunction
                  [] OTHER -> FunctionInfo(
                                  SubSeq(overloads, 1,
                                         CHOOSE i \in 1..Len(overloads) : OverloadNames[i] = name),
                                  None, "")],
            <<>>)

OverloadedFiles ==
    {OverloadedFile(return_types, body) :
        return_types \in OverloadReturnTypes, body \in Bodies(MaxNesting + 1)}

\* Generated nestings: a function foo, overloaded or not, whose body holds
\* annotated assignments, returns, and functions and methods of classes
\* nested up to a depth, each with a parameter annotated Any or not
AnyName == Name(Unplaced, AnyT, "Any")

\* y: Any = 1
AnyAssign ==
    AnnAssign(Unplaced, Name(Unplaced, AnyT, "y"), AnyName,
              Some(Expr("NumberLiteral", Unplaced, IntLiteral, "1", <<>>)))

\* return 1
ReturnOne ==
    Return(Unplaced, Some(Expr("NumberLiteral", Unplaced, IntLiteral, "1", <<>>)))

\* def g(q: <annotation>): <body>
NestedDef(annotation, body) ==
    FunctionDef(Unplaced, FunctionLiteral("g"), <<>>, << Param(annotation, None) >>,
                None, body)

RECURSIVE NestedBodies(_)
\* the bodies of a function: leaves, a return before a nested definition,
\* a nested definition before an annotated assignment
NestedBodies(depth) ==
    LET leaves == { <<AnyAssign>>, <<ReturnOne>>, <<AnyAssign, ReturnOne>> }
    IN  IF depth = 0 THEN leaves
        ELSE LET definitions ==
                     {NestedDef(annotation, body) :
                         annotation \in {None, Some(AnyName)},
                         body \in NestedBodies(depth - 1)}
                     \cup {ClassDef(Unplaced, << NestedDef(Some(AnyName), body) >>) :
                              body \in NestedBodies(depth - 1)}
             IN  leaves
                 \cup {<<ReturnOne, definition>> : definition \in definitions}
                 \cup {<<definition, AnyAssign>> : definition \in definitions}

\* def foo(p: Any): <body>, after  @overload def foo() -> str: ...  when
\* foo is overloaded
NestedFile(overloaded, body) ==
    LET overloads == IF overloaded THEN OverloadsOf(<< Some(StrT) >>) ELSE <<>>
    IN  SourceFile("nested.py", TRUE,
            [i \in 1..Len(overloads) |-> OverloadDef(i, overloads[i])]
            \o << PlaceStmt(FunctionDef(Unplaced, FunctionLiteral("foo"), <<>>,
                                        << Param(Some(AnyName), None) >>, None, body),
                            3000) >>,
            <<>>,
            [name \in {"overload", "foo", "g", OverloadNames[1]} |->
                CASE name = "overload" -> FunctionInfo(<<>>, None, "Overload")
                  [] name = "foo" -> FunctionInfo(overloads, Some(Implementation(<<>>, <<>>)), "")
                  [] name = "g" -> PlainFunction
                  [] OTHER -> FunctionInfo(overloads, None, "")],
            <<>>)

NestedFiles ==
    {NestedFile(overloaded, body) :
        overloaded \in BOOLEAN, body \in NestedBodies(MaxNesting + 1)}

\* the statement  y: Any = 1  that ends the generated files below
Trailer ==
    AnnAssign(<<500, 510>>, Name(<<500, 501>>, AnyT, "y"), Name(<<503, 506>>, AnyT, "Any"),
              Some(Expr("NumberLiteral", <<509, 510>>, IntLiteral, "1", <<>>)))

\* Generated assignments to __defaults__: the function's signature and the
\* type of the new value
RECURSIVE TupleElements(_)
\* the element lists of the tuples of int and str up to a length
TupleElements(length) ==
    IF length = 0 THEN {<<>>}
    ELSE LET shorter == TupleElements(length - 1)
         IN  shorter \cup {Append(elems, ty) : elems \in shorter, ty \in {IntT, StrT}}

NewDefaultsTypes ==
    {TupleT(elems) : elems \in TupleElements(MaxDepth)} \cup {NoneT, IntT, UnknownT}

\* def f(): ...                               def f(a: int = 0): ...
\* def f(a: int, b: str = ""): ...            def f(a, b: str = "", c: int = 0): ...
\* def f(a: int, b: str): ...                 and f with overloads only
DefaultsSignatures ==
    { FunctionInfo(<<>>, Some(Implementation(<<>>, <<>>)), ""),
      FunctionInfo(<<>>, Some(Implementation(<<Some(IntT)>>, <<Some(IntT)>>)), ""),
      FunctionInfo(<<>>, Some(Implementation(<<Some(IntT), Some(StrT)>>,
                                             <<None, Some(StrT)>>)), ""),
      FunctionInfo(<<>>, Some(Implementation(<<None, Some(StrT), Some(IntT)>>,
                                             <<None, Some(StrT), Some(IntT)>>)), ""),
      FunctionInfo(<<>>, Some(Implementation(<<Some(IntT), Some(StrT)>>,
                                             <<None, None>>)), ""),
      FunctionInfo(<<Overload(<<>>, Some(IntT))>>, None, "") }

\*   f.__defaults__ = new
DefaultsFile(f, new_type) ==
    SourceFile("defaults.py", TRUE,
        << Assign(<<10, 60>>,
               << Expr("Attribute", <<10, 24>>, new_type, "__defaults__",
                       << Name(<<10, 11>>, FunctionLiteral("f"), "f") >>) >>,
               Name(<<50, 53>>, new_type, "new"), {}),
           Trailer >>,
        <<>>, "f" :> f, <<>>)

DefaultsFiles ==
    {DefaultsFile(f, new_type) : f \in DefaultsSignatures, new_type \in NewDefaultsTypes}

\* Generated setattr calls, globals() assignments and attribute accesses
Member(name, ty) == [name |-> name, ty |-> ty]

\* the members of class Foo
FooMembers ==
    { {},
      {Member("x", IntT)},
      {Member("x", IntLiteral)},
      {Member("x", StrT), Member("y", IntT)} }

\* the arguments after the object: a name, a name and a value
SetattrArguments ==
    { << Expr("StringLiteral", <<20, 23>>, StringLiteral, "x", <<>>) >>,
      << Name(<<20, 23>>, StrT, "key"), Name(<<25, 26>>, IntT, "v") >> }
    \cup { << Expr("StringLiteral", <<20, 23>>, StringLiteral, name, <<>>),
              Name(<<25, 26>>, ty, "v") >> :
           name \in {"x", "missing"}, ty \in {IntT, IntLiteral, StrT, AnyT} }

\*   setattr(o, <name>, <value>)
SetattrFile(members, arguments) ==
    SourceFile("setattr.py", TRUE,
        << ExprStmt(<<10, 30>>,
               Expr("Call", <<10, 30>>, NoneT, "",
                    << Name(<<10, 17>>, UnknownT, "setattr"),
                       Name(<<18, 19>>, Instance("Foo"), "o") >> \o arguments)),
           Trailer >>,
        <<>>, <<>>, "Foo" :> members)

SetattrFiles ==
    {SetattrFile(members, arguments) :
        members \in FooMembers, arguments \in SetattrArguments}

\*   globals()[<key>] = <value>, with x defined in the scope
GlobalsFile(key, current_type, value_type) ==
    SourceFile("globals.py", TRUE,
        << Assign(<<10, 40>>,
               << Expr("Subscript", <<10, 24>>, value_type, "",
                       << Expr("Call", <<10, 19>>, Instance("dict"), "",
                               << Name(<<10, 17>>, UnknownT, "globals") >>),
                          Expr("StringLiteral", <<20, 23>>, StringLiteral, key, <<>>) >>) >>,
               Name(<<30, 31>>, value_type, "v"),
               {[key |-> "x", value |-> current_type]}),
           Trailer >>,
        <<>>, <<>>, <<>>)

GlobalsFiles ==
    {GlobalsFile(key, current_type, value_type) :
        key \in {"x", "missing"}, current_type \in {IntT, IntLiteral, StrT},
        value_type \in {IntT, IntLiteral, StrT}}

\* the receivers of an attribute access: an instance of Foo, self in a
\* method of Foo, a type variable without upper bound, an unknown object, a
\* function, the class Foo
Receivers ==
    { Instance("Foo"), TypeVarT("Self", <<Instance("Foo")>>), TypeVarT("T", <<>>),
      UnknownT, FunctionLiteral("f"), ClassLiteral("Foo") }

\*   r.<attr>
AttributeFile(receiver, attr) ==
    SourceFile("attribute.py", TRUE,
        << ExprStmt(<<10, 30>>,
               Expr("Attribute", <<10, 30>>, UnknownT, attr,
                    << Name(<<10, 11>>, receiver, "r") >>)),
           Trailer >>,
        <<>>, "f" :> PlainFunction, <<>>)

AttributeFiles ==
    {AttributeFile(receiver, attr) :
        receiver \in Receivers, attr \in {"_Foo__secret", "_Foo__x", "_Foo__", "_Bar__x", "x"}}

\* Generated assignments: targets, values and the signatures of the two
\* functions
\*   <name>.<attr>
AttributeOf(start, ty, name, attr) ==
    Expr("Attribute", <<start, start + 10>>, UnknownT, attr,
         << Name(<<start, start + 1>>, ty, name) >>)

\* the targets at an offset: the attribute of a function, of a function
\* that has overloads only, of an object that is no function; another
\* attribute; a name; a tuple holding the attribute
AssignmentTargetsAt(start) ==
    { AttributeOf(start, FunctionLiteral("f"), "f", "__code__"),
      AttributeOf(start, FunctionLiteral("stub"), "stub", "__code__"),
      AttributeOf(start, Instance("object"), "o", "__code__"),
      AttributeOf(start, FunctionLiteral("f"), "f", "__defaults__"),
      Name(<<start, start + 1>>, IntT, "x"),
      Expr("Tuple", <<start, start + 14>>, TupleT(<<>>), "",
           << AttributeOf(start + 1, FunctionLiteral("f"), "f", "__code__"),
              Name(<<start + 13, start + 14>>, IntT, "x") >>) }

AssignmentTargets ==
    {<<target>> : target \in AssignmentTargetsAt(10)}
    \cup {<<first, AttributeOf(30, FunctionLiteral("f"), "f", "__code__")>> :
             first \in AssignmentTargetsAt(10)}

AssignedValues ==
    { AttributeOf(50, FunctionLiteral("g"), "g", "__code__"),
      Expr("NoneLiteral", <<50, 54>>, NoneT, "None", <<>>),
      Name(<<50, 51>>, AnyT, "v") }

\* def f(): ...   and   def f(a: int, b: str = ""): ...
Signatures ==
    { FunctionInfo(<<>>, Some(Implementation(<<>>, <<>>)), ""),
      FunctionInfo(<<>>, Some(Implementation(<<Some(IntT), Some(StrT)>>,
                                             <<None, Some(StrT)>>)), "") }

AssignmentFile(targets, value, f, g) ==
    SourceFile("assignment.py", TRUE,
        << Assign(<<10, 60>>, targets, value, {}) >>, <<>>,
        ("f" :> f) @@ ("g" :> g)
        @@ ("stub" :> FunctionInfo(<<Overload(<<>>, Some(IntT))>>, None, "")),
        <<>>)

AssignmentFiles ==
    {AssignmentFile(targets, value, f, g) :
        targets \in AssignmentTargets, value \in AssignedValues,
        f \in Signatures, g \in Signatures}

\* the file at another path, with a source text that cannot be read back
Unreadable(file) == [file EXCEPT !.readable = FALSE, !.path = "unreadable.py"]

TestProjects ==
    {<<>>, <<MutateFile, AnyFile>>}
    \cup {<<Unreadable(file), file>> : file \in SourceFiles}
    \cup {<<file>> : file \in SourceFiles}
    \cup {<<file>> : file \in AnnotationFiles}
    \cup {<<file>> : file \in CommentFiles}
    \cup {<<file>> : file \in AssignmentFiles}
    \cup {<<file>> : file \in OverloadedFiles}
    \cup {<<file>> : file \in DefaultsFiles}
    \cup {<<file>> : file \in SetattrFiles}
    \cup {<<file>> : file \in GlobalsFiles}
    \cup {<<file>> : file \in AttributeFiles}
    \cup {<<file>> : file \in NestedFiles}

TestInputs == [options : ProjectOptions, files : TestProjects]

InitTest ==
    \E given \in TestInputs :
        /\ reg_calls = register_rules
        /\ builder = RunCalls(EmptyBuilder, register_rules)
        /\ registry = default_rule_registry
        /\ phase = "test"
        /\ selection = {}
        /\ applied = <<>>
        /\ config_diags = <<>>
        /\ files = <<>>
        /\ tasks = <<>>
        /\ finished = <<>>
        /\ all_diagnostics = None
        /\ runs = 0
        /\ previous_run = <<>>
        /\ test_input = given
        /\ test_results = <<>>
        /\ test_diagnostics = None
        /\ exit_status = None

\* RuleSelection::from_rules_selection(rule_registry, rules, db)
TestSelectRules ==
    /\ phase = "test"
    /\ LET result == from_rules_selection(registry, test_input.options)
       IN  /\ selection' = result.sel
           /\ config_diags' = result.diags
    /\ applied' = test_input.options
    /\ phase' = "test_selected"
    /\ UNCHANGED <<builder, reg_calls, registry, files, tasks, finished,
                   all_diagnostics, runs, previous_run, tvars>>

\* one turn of the loop: diagnostics.extend(check_file(db, file, rule_selection))
TestCheckFile ==
    /\ phase = "test_selected"
    /\ Len(test_results) < Len(test_input.files)
    /\ test_results' =
           Append(test_results,
                  CheckSource(selection, test_input.files[Len(test_results) + 1]))
    /\ UNCHANGED <<phase, builder, reg_calls, registry, selection, applied,
                   config_diags, files, tasks, finished, all_diagnostics, runs,
                   previous_run, test_input, test_diagnostics, exit_status>>

\* the diagnostics are printed and test returns
TestReturn ==
    /\ phase = "test_selected"
    /\ Len(test_results) = Len(test_input.files)
    /\ LET diagnostics ==
               FlatMap(test_results, [i \in 1..Len(test_results) |-> i])
       IN  /\ test_diagnostics' = Some(diagnostics)
           /\ exit_status' = Some(TestExitStatus(diagnostics))
    /\ phase' = "exited"
    /\ UNCHANGED <<builder, reg_calls, registry, selection, applied,
                   config_diags, files, tasks, finished, all_diagnostics, runs,
                   previous_run, test_input, test_results>>

NextTest ==
    \/ TestSelectRules
    \/ TestCheckFile
    \/ TestReturn

TestSpec == InitTest /\ [][NextTest]_vars

\* the diagnostics of the k-th file of the check command's project
TestResult(k) == test_results[k]

WithId(diagnostics, rule) ==
    LET HasId(diag) == diag.id = rule.name IN SelectSeq(diagnostics, HasId)

DefaultSelection == test_input.options = <<>>

(***************************************************************************)
(* C11: def foo(x: Any) -> Any: ... under the default selection            *)
(***************************************************************************)
OnlyDefaultProvenance(diag) ==
    /\ Len(diag.subs) = 1
    /\ IsProvenanceOf(diag.subs[1], diag.id, "Default")

AtDefaultSeverity(diag) ==
    diag.severity = LevelSeverity(RuleNamed(diag.id).default_level)

OptSet(option) == {option[i] : i \in 1..Len(option)}

RECURSIVE SubExprs(_)
\* an expression and everything below it
SubExprs(e) == {e} \cup UNION {SubExprs(e.children[i]) : i \in 1..Len(e.children)}

RECURSIVE Annotated(_)
\* the annotations of the statements of a body and of everything nested in
\* them: parameters', returns' and annotated assignments'
Annotated(stmts) ==
    UNION { UNION {OptSet(stmts[i].params[j].annotation) : j \in 1..Len(stmts[i].params)}
            \cup OptSet(stmts[i].returns)
            \cup OptSet(stmts[i].annotation)
            \cup Annotated(stmts[i].body)
            \cup UNION {Annotated(stmts[i].clauses[j].body) : j \in 1..Len(stmts[i].clauses)}
          : i \in 1..Len(stmts) }

AnnotationParts(file) == UNION {SubExprs(e) : e \in Annotated(file.suite)}

CountAt(diagnostics, range) ==
    Cardinality({n \in 1..Len(diagnostics) : PrimaryRange(diagnostics[n]) = range})

OverloadDecorators(file) ==
    { file.suite[i].decorators[j].range :
        i \in {i \in 1..Len(file.suite) : file.suite[i].decorators # <<>>},
        j \in {1} }

InfoSubs(diag) ==
    LET IsInfo(s) ==
            /\ s.severity = "Info"
            /\ ~ \E source \in RuleSources : IsProvenanceOf(s, diag.id, source)
    IN  SelectSeq(diag.subs, IsInfo)

\* C13: in the file whose function foo has overloads returning str and int
\* and an implementation whose only return statement returns a bytes
\* literal, the check yields exactly one invalid-overload-implementation
\* diagnostic, at that return statement, whose info names the literal's type
\* and then the overloads' return types str, int in declaration order; and
\* exactly one typing-overload-used diagnostic per @overload decorator.
C13_OneInvalidImplementationOnePerDecorator ==
    \A k \in 1..Len(test_results) :
        test_input.files[k] = OverloadFile =>
            LET invalid == WithId(TestResult(k), INVALID_OVERLOAD_IMPLEMENTATION)
                used == WithId(TestResult(k), TYPING_OVERLOAD_USED)
            IN  /\ is_enabled(selection, INVALID_OVERLOAD_IMPLEMENTATION) =>
                     /\ Len(invalid) = 1
                     /\ PrimaryRange(invalid[1]) = <<116, 126>>
                     /\ Len(InfoSubs(invalid[1])) = 1
                     /\ InfoSubs(invalid[1])[1].message[2] = <<"Literal[b\"\"]">>
                     /\ InfoSubs(invalid[1])[1].message[4] = << <<"str">>, <<"int">> >>
                /\ is_enabled(selection, TYPING_OVERLOAD_USED) =>
                     /\ Len(used) = 2
                     /\ \A range \in OverloadDecorators(OverloadFile) :
                           CountAt(used, range) = 1

C13_Witness ==
    /\ phase = "exited"
    /\ test_input.files = <<OverloadFile>>
    /\ Len(WithId(TestResult(1), INVALID_OVERLOAD_IMPLEMENTATION)) = 1
    /\ Len(WithId(TestResult(1), TYPING_OVERLOAD_USED)) = 2
    /\ Cardinality(OverloadDecorators(OverloadFile)) = 2

(***************************************************************************)
(* C14                                                                     *)
(***************************************************************************)
HasError(diagnostics) ==
    \E n \in 1..Len(diagnostics) : diagnostics[n].severity = "Error"

\* the diagnostics of a run that has warnings only: any.py under the
\* default selection
WarnOnlyDiagnostics ==
    CheckSource(from_rules_selection(default_rule_registry, <<>>).sel, AnyFile)

\* C14: a check run that produces at least one error-severity diagnostic
\* exits with a status other than the status of a run producing warnings
\* only, and a run with no diagnostics exits with the success status.
C14_ErrorRunsExitDifferently ==
    phase = "exited" =>
        /\ HasError(test_diagnostics[1]) =>
              exit_status[1] # TestExitStatus(WarnOnlyDiagnostics)
        /\ test_diagnostics[1] = <<>> => exit_status[1] = "Success"

\* what the command does: every finished run exits with the success status
C14_EveryRunExitsSuccess ==
    phase = "exited" => exit_status = Some("Success")

C14_Witness ==
    /\ phase = "exited"
    /\ HasError(test_diagnostics[1])
    /\ ~ HasError(WarnOnlyDiagnostics)
    /\ WarnOnlyDiagnostics # <<>>
    /\ exit_status = Some("Success")

(***************************************************************************)
(* C15                                                                     *)
(***************************************************************************)
\* the diagnostic as reported for the same range of the file at path
Relocate(diag, path) == [diag EXCEPT !.annotations[1].span.file = path]

RelocateAll(diagnostics, path) ==
    [n \in 1..Len(diagnostics) |-> Relocate(diagnostics[n], path)]

WithoutDirectives(diagnostics) ==
    LET NotDirective(diag) == ~IsDirectiveDiagnostic(diag)
    IN  SelectSeq(diagnostics, NotDirective)

\* C15: when the text of a file cannot be read for the comment scan,
\* check_file returns exactly the diagnostics the syntax-tree walk gives for
\* the same file when it can be read, unchanged and in the same order, and
\* no directive-comment diagnostic; the run goes on to the next file.
C15_UnreadableTextSkipsOnlyComments ==
    \A j, k \in 1..Len(test_results) :
        (/\ ~test_input.files[k].readable
         /\ test_input.files[j].readable
         /\ Unreadable(test_input.files[j]) = test_input.files[k]) =>
            /\ TestResult(k) =
                   RelocateAll(WithoutDirectives(TestResult(j)), test_input.files[k].path)
            /\ WithoutDirectives(TestResult(k)) = TestResult(k)

C15_Witness ==
    /\ phase = "exited"
    /\ exit_status = Some("Success")
    /\ test_input.files = <<Unreadable(MutateFile), MutateFile>>
    /\ Len(TestResult(1)) >= 2
    /\ Len(TestResult(2)) > Len(TestResult(1))

(***************************************************************************)
(* C16                                                                     *)
(***************************************************************************)
\* the content of a comment that starts with "# ": what follows, without
\* the whitespace around it
Content(text) == trim(SubSeq(text, 3, Len(text)))

BeginsWithDirective(text, directive) ==
    /\ starts_with(text, <<"#", " ">>)
    /\ starts_with(Content(text), directive)

Directives == {TYPE_CHECKING_DIRECTIVES[i] : i \in 1..Len(TYPE_CHECKING_DIRECTIVES)}

RECURSIVE Parameters(_)
\* the parameters of the function definitions of a body and of everything
\* nested in them
Parameters(stmts) ==
    UNION { {stmts[i].params[j] : j \in 1..Len(stmts[i].params)}
            \cup Parameters(stmts[i].body)
            \cup UNION {Parameters(stmts[i].clauses[j].body) : j \in 1..Len(stmts[i].clauses)}
          : i \in 1..Len(stmts) }

MutableKinds == {"List", "Dict", "Set", "ListComp", "DictComp", "SetComp"}

\* an annotation with a type variable somewhere in it and a mutable default
MutableGenericDefault(parameter) ==
    /\ parameter.annotation # None
    /\ parameter.default # None
    /\ \E e \in SubExprs(parameter.annotation[1]) : inferred_type(e).t = "TypeVar"
    /\ parameter.default[1].kind \in MutableKinds

\* C17: with mutable-generic-default enabled, a parameter yields a
\* mutable-generic-default diagnostic exactly when its annotation contains a
\* sub-expression inferred as a type variable and its default is a list,
\* dict or set literal or comprehension; there is then exactly one, at the
\* default expression.
C17_MutableDefaultOfGenericParameter ==
    \A k \in 1..Len(test_results) :
        LET parameters == Parameters(test_input.files[k].suite)
            mutable == WithId(TestResult(k), MUTABLE_GENERIC_DEFAULT)
        IN  is_enabled(selection, MUTABLE_GENERIC_DEFAULT) =>
              /\ \A parameter \in parameters :
                    IF MutableGenericDefault(parameter)
                    THEN CountAt(mutable, parameter.default[1].range) = 1
                    ELSE parameter.default # None =>
                             CountAt(mutable, parameter.default[1].range) = 0
              /\ Len(mutable) =
                     Cardinality({parameter \in parameters : MutableGenericDefault(parameter)})

\* def f(x: dict[int, list[T]] = {k: v for ...}) inside another function
C17_Witness ==
    /\ phase = "exited"
    /\ Len(test_input.files) = 1
    /\ test_input.files[1].suite[1].body # <<>>
    /\ test_input.files[1].suite[1].body[1].kind = "FunctionDef"
    /\ \E parameter \in Parameters(test_input.files[1].suite) :
          /\ MutableGenericDefault(parameter)
          /\ parameter.default[1].kind = "DictComp"
          /\ inferred_type(parameter.annotation[1]).t # "TypeVar"
          /\ CountAt(WithId(TestResult(1), MUTABLE_GENERIC_DEFAULT),
                     parameter.default[1].range) = 1

(***************************************************************************)
(* C18                                                                     *)
(***************************************************************************)
RECURSIVE Statements(_)
\* the statements of a body and everything nested in them
Statements(stmts) ==
    UNION { {stmts[i]} \cup Statements(stmts[i].body)
            \cup UNION {Statements(stmts[i].clauses[j].body) : j \in 1..Len(stmts[i].clauses)}
          : i \in 1..Len(stmts) }

\* the targets of the assignment statements of a file
AssignTargets(file) ==
    UNION { {stmt.targets[i] : i \in 1..Len(stmt.targets)} :
            stmt \in {stmt \in Statements(file.suite) : stmt.kind = "Assign"} }

\* fn.__code__ with fn inferred as a function
IsFunctionCode(target) ==
    /\ target.kind = "Attribute"
    /\ target.text = "__code__"
    /\ inferred_type(target.children[1]).t = "FunctionLiteral"

\* C18: with mutating-function-code-attribute enabled, every target of an
\* assignment statement that is fn.__code__ with fn inferred as a function
\* yields exactly one mutating-function-code-attribute diagnostic at that
\* target, whatever the assigned value, the other targets and the
\* signatures of the functions are.
C18_CodeAttributeTargetAlwaysReported ==
    \A k \in 1..Len(test_results) :
        is_enabled(selection, MUTATING_FUNCTION_CODE_ATTRIBUTE) =>
            \A target \in AssignTargets(test_input.files[k]) :
                IsFunctionCode(target) =>
                    CountAt(WithId(TestResult(k), MUTATING_FUNCTION_CODE_ATTRIBUTE),
                            target.range) = 1

\* stub.__code__ = f.__code__ = None, stub having overloads only and f
\* parameters with defaults: both targets reported
C18_Witness ==
    /\ phase = "exited"
    /\ Len(test_input.files) = 1
    /\ test_input.files[1].path = "assignment.py"
    /\ test_input.files[1].functions["f"].implementation[1].default_types # <<>>
    /\ LET stmt == test_input.files[1].suite[1]
       IN  /\ Len(stmt.targets) = 2
           /\ IsFunctionCode(stmt.targets[1])
           /\ stmt.targets[1].children[1].text = "stub"
           /\ IsFunctionCode(stmt.targets[2])
           /\ stmt.value[1].kind = "NoneLiteral"
    /\ Len(WithId(TestResult(1), MUTATING_FUNCTION_CODE_ATTRIBUTE)) = 2

(***************************************************************************)
(* C19                                                                     *)
(***************************************************************************)
\* the n-th call returned: no call follows one that panicked
Returned(n) == n < Len(reg_calls) \/ phase # "panicked"

\* when the n-th call was made, name was in the index as a rule, active or
\* removed
ResolvedToRule(n, name) ==
    \E m \in 1..(n - 1) : reg_calls[m].name = name /\ reg_calls[m].op = "rule"

\* C19: a register_alias(from, to) call returns only when to's name was in
\* the index as an active or removed rule, and panics when the name was
\* there as an alias or not at all; so in a built registry every alias entry
\* holds a rule that is in the index under its own name as a rule, never as
\* an alias.
C19_AliasPointsAtRegisteredRule ==
    /\ \A n \in 1..Len(reg_calls) :
          reg_calls[n].op = "alias" =>
              (Returned(n) => ResolvedToRule(n, reg_calls[n].to.name))
    /\ phase = "built" =>
          \A slot \in registry.by_name :
              slot.value.kind = "Alias" =>
                  \E target \in registry.by_name :
                      /\ target.key = slot.value.id.name
                      /\ target.value.kind \in {"Rule", "Removed"}
                      /\ target.value.id = slot.value.id

\* two aliases built, one of a removed rule, after rules only
C19_Witness ==
    /\ phase = "built"
    /\ Cardinality({slot \in registry.by_name : slot.value.kind = "Alias"}) = 2
    /\ \E slot \in registry.by_name :
          slot.value.kind = "Alias" /\ is_removed(slot.value.id)

\* an alias of a name that is itself an alias panics
C19_PanicWitness ==
    /\ phase = "panicked"
    /\ LET last == reg_calls[Len(reg_calls)]
       IN  /\ last.op = "alias"
           /\ \E m \in 1..(Len(reg_calls) - 1) :
                 reg_calls[m].op = "alias" /\ reg_calls[m].name = last.to.name
           /\ MapGet(builder.by_name, last.name) = None

(***************************************************************************)
(* C20                                                                     *)
(***************************************************************************)
RECURSIVE RegisteredNotRemoved(_)
\* the rules of the register_rule calls that are not removed, in call order
RegisteredNotRemoved(calls) ==
    IF calls = <<>> THEN <<>>
    ELSE (IF Head(calls).op = "rule" /\ ~Head(calls).to.removed
          THEN <<Head(calls).to>> ELSE <<>>)
         \o RegisteredNotRemoved(Tail(calls))

\* C20: in a registry built after calls that all returned, rules() is the
\* sequence of the registered rules that are not removed, in registration
\* order and without duplicates; a registered removed rule is not in
\* rules() and its name resolves through get to GetRuleError::Removed.
C20_RulesAreRegisteredNotRemoved ==
    phase = "built" =>
        /\ rules(registry) = RegisteredNotRemoved(reg_calls)
        /\ \A i, j \in 1..Len(rules(registry)) :
              rules(registry)[i] = rules(registry)[j] => i = j
        /\ \A n \in 1..Len(reg_calls) :
              (reg_calls[n].op = "rule" /\ reg_calls[n].to.removed) =>
                  /\ \A i \in 1..Len(rules(registry)) :
                        rules(registry)[i] # reg_calls[n].to
                  /\ Get(registry, reg_calls[n].to.name) =
                         [tag |-> "Removed", name |-> reg_calls[n].to.name]

\* a removed rule registered between two active ones
C20_Witness ==
    /\ phase = "built"
    /\ Len(reg_calls) >= 3
    /\ reg_calls[2].op = "rule"
    /\ reg_calls[2].to.removed
    /\ Len(rules(registry)) = 2
    /\ Get(registry, reg_calls[2].to.name).tag = "Removed"

(***************************************************************************)
(* C21                                                                     *)
(***************************************************************************)
IsOverloaded(file) == file.path = "overloaded.py"

OverloadsIn(file) == file.functions["foo"].overloads

\* the implementation: the last statement of the file
ImplementationIn(file) == file.suite[Len(file.suite)]

\* an overload whose return type is dynamic or that declares none
UnknownReturn(overload) ==
    \/ overload.return_ty = None
    \/ overload.return_ty[1].t \in {"Any", "Unknown"}

\* C21: when some overload of a function returns the dynamic type or has no
\* resolvable return type, the overload-implementation check is skipped: no
\* invalid-overload-implementation diagnostic is reported for the function.
C21_SkippedWhenAnOverloadReturnIsUnknown ==
    \A k \in 1..Len(test_results) :
        LET file == test_input.files[k]
        IN  (/\ IsOverloaded(file)
             /\ \E i \in 1..Len(OverloadsIn(file)) : UnknownReturn(OverloadsIn(file)[i])) =>
                WithId(TestResult(k), INVALID_OVERLOAD_IMPLEMENTATION) = <<>>

(***************************************************************************)
(* C22                                                                     *)
(***************************************************************************)
RECURSIVE OuterReturns(_)
\* the return statements of a body that are in no nested function definition
OuterReturns(stmts) ==
    UNION { IF stmts[i].kind = "Return" THEN {stmts[i]}
            ELSE IF stmts[i].kind = "FunctionDef" THEN {}
            ELSE OuterReturns(stmts[i].body)
                 \cup UNION {OuterReturns(stmts[i].clauses[j].body) : j \in 1..Len(stmts[i].clauses)}
          : i \in 1..Len(stmts) }

\* C22: the overload-implementation check collects exactly the return
\* statements of the implementation's body that are in no nested function
\* definition, each once, and reports no other return statement.
C22_OnlyReturnsOutsideNestedFunctions ==
    \A k \in 1..Len(test_results) :
        LET file == test_input.files[k]
            collected == get_return_statements(ImplementationIn(file))
            outer == OuterReturns(ImplementationIn(file).body)
            invalid == WithId(TestResult(k), INVALID_OVERLOAD_IMPLEMENTATION)
        IN  IsOverloaded(file) =>
              /\ {collected[n] : n \in 1..Len(collected)} = outer
              /\ Len(collected) = Cardinality(outer)
              /\ \A n \in 1..Len(invalid) :
                    \E r \in outer : PrimaryRange(invalid[n]) = r.range

(***************************************************************************)
(* C29                                                                     *)
(***************************************************************************)
\* C29: with invalid-overload-implementation enabled, a bare return of the
\* implementation (outside nested functions) is reported once when every
\* overload declares a return type, also when None is assignable to the
\* union of those types, and is not reported when some overload declares no
\* return type.
C29_BareReturnReportedWhenAllOverloadsDeclare ==
    \A k \in 1..Len(test_results) :
        LET file == test_input.files[k]
            invalid == WithId(TestResult(k), INVALID_OVERLOAD_IMPLEMENTATION)
            declared == \A i \in 1..Len(OverloadsIn(file)) :
                            OverloadsIn(file)[i].return_ty # None
        IN  (IsOverloaded(file)
             /\ is_enabled(selection, INVALID_OVERLOAD_IMPLEMENTATION)) =>
                \A r \in OuterReturns(ImplementationIn(file).body) :
                    r.value = None =>
                        CountAt(invalid, r.range) = IF declared THEN 1 ELSE 0

\* overload returning int | None, implementation with a bare return
C29_Witness ==
    /\ phase = "exited"
    /\ Len(test_input.files) = 1
    /\ IsOverloaded(test_input.files[1])
    /\ OverloadsIn(test_input.files[1])[1].return_ty = Some(UnionT(<<IntT, NoneT>>))
    /\ \E r \in OuterReturns(ImplementationIn(test_input.files[1]).body) :
          /\ r.value = None
          /\ CountAt(WithId(TestResult(1), INVALID_OVERLOAD_IMPLEMENTATION), r.range) = 1

\* overloads one of which declares no return type: the bare return passes
C29_UndeclaredWitness ==
    /\ phase = "exited"
    /\ Len(test_input.files) = 1
    /\ IsOverloaded(test_input.files[1])
    /\ Len(OverloadsIn(test_input.files[1])) = 2
    /\ OverloadsIn(test_input.files[1])[2].return_ty = None
    /\ ImplementationIn(test_input.files[1]).body[1].kind = "Return"
    /\ ImplementationIn(test_input.files[1]).body[1].value = None
    /\ WithId(TestResult(1), INVALID_OVERLOAD_IMPLEMENTATION) = <<>>

(***************************************************************************)
(* C23                                                                     *)
(***************************************************************************)
IsDefaultsFile(file) == file.path = "defaults.py"

\* the target f.__defaults__ of the file's assignment; its inferred type is
\* the type of the new value
DefaultsTarget(file) == file.suite[1].targets[1]

NewType(file) == inferred_type(DefaultsTarget(file))

SignatureIn(file) == file.functions["f"].implementation[1]

Defaulted(signature) ==
    {i \in 1..Len(signature.default_types) : signature.default_types[i] # None}

\* (a) the function has a defaulted parameter and the new value is None
NoneOverDefaults(file) ==
    NewType(file) = NoneT /\ Defaulted(SignatureIn(file)) # {}

\* (b) the new tuple has fewer elements than there are defaulted parameters
TooShort(file) ==
    /\ NewType(file).t = "Tuple"
    /\ Len(NewType(file).args) < Cardinality(Defaulted(SignatureIn(file)))

\* (c) an element is not assignable to the annotation of the parameter at
\* its position, counted from the first parameter
ElementMismatch(file) ==
    /\ NewType(file).t = "Tuple"
    /\ \E i \in 1..Len(NewType(file).args) :
          /\ i <= Len(SignatureIn(file).annotated_types)
          /\ SignatureIn(file).annotated_types[i] # None
          /\ ~is_assignable_to(NewType(file).args[i],
                               SignatureIn(file).annotated_types[i][1])

DefaultsDiagnostics(k) == WithId(TestResult(k), INVALID_FUNCTION_DEFAULTS)

\* C23: with invalid-function-defaults enabled, for f.__defaults__ = new
\* where f is a function with an implementation signature, a diagnostic is
\* reported at the target when (a), (b) or (c) holds, and none otherwise.
C23_DefaultsReportedWhenNoneShortOrMismatch ==
    \A k \in 1..Len(test_results) :
        LET file == test_input.files[k]
        IN  (/\ IsDefaultsFile(file)
             /\ file.functions["f"].implementation # None
             /\ is_enabled(selection, INVALID_FUNCTION_DEFAULTS)) =>
                IF NoneOverDefaults(file) \/ TooShort(file) \/ ElementMismatch(file)
                THEN CountAt(DefaultsDiagnostics(k), DefaultsTarget(file).range) >= 1
                ELSE DefaultsDiagnostics(k) = <<>>

\* def f(a, b: str = "", c: int = 0) with f.__defaults__ = (int,): too short
C23_Witness ==
    /\ phase = "exited"
    /\ Len(test_input.files) = 1
    /\ IsDefaultsFile(test_input.files[1])
    /\ test_input.files[1].functions["f"].implementation # None
    /\ TooShort(test_input.files[1])
    /\ ~ElementMismatch(test_input.files[1])
    /\ Len(NewType(test_input.files[1]).args) = 1
    /\ Len(DefaultsDiagnostics(1)) = 1

(***************************************************************************)
(* C28                                                                     *)
(***************************************************************************)
\* C28: when the new tuple is not too short, its i-th element is compared
\* with the annotation of the i-th parameter of the signature, counted from
\* the first parameter and skipping parameters without annotation, and the
\* comparison gives one diagnostic at most: exactly one when some element
\* does not fit, none otherwise.
C28_ElementsAlignWithParametersFromTheFirst ==
    \A k \in 1..Len(test_results) :
        LET file == test_input.files[k]
        IN  (/\ IsDefaultsFile(file)
             /\ file.functions["f"].implementation # None
             /\ NewType(file).t = "Tuple"
             /\ ~TooShort(file)
             /\ is_enabled(selection, INVALID_FUNCTION_DEFAULTS)) =>
                Len(DefaultsDiagnostics(k)) = IF ElementMismatch(file) THEN 1 ELSE 0

\* def f(a: int, b: str = "") with f.__defaults__ = (str, str): the first
\* element is compared with a's annotation, and reported once
C28_Witness ==
    /\ phase = "exited"
    /\ Len(test_input.files) = 1
    /\ IsDefaultsFile(test_input.files[1])
    /\ test_input.files[1].functions["f"].implementation # None
    /\ SignatureIn(test_input.files[1]).default_types = <<None, Some(StrT)>>
    /\ NewType(test_input.files[1]) = TupleT(<<StrT, StrT>>)
    /\ Len(DefaultsDiagnostics(1)) = 1

(***************************************************************************)
(* C24                                                                     *)
(***************************************************************************)
\* the statement the rule looks at: the first of the file
CheckedStmt(file) == file.suite[1]

\* the function assigned to has no implementation signature
NoImplementation(file) ==
    IsDefaultsFile(file) /\ file.functions["f"].implementation = None

\* the new __defaults__ value is not None and has no tuple shape
NoTupleShape(file) ==
    IsDefaultsFile(file) /\ NewType(file) # NoneT /\ NewType(file).t # "Tuple"

\* setattr(o, "name", v) with a name that is no member of o's type
UnknownMember(file) ==
    /\ file.path = "setattr.py"
    /\ Len(CheckedStmt(file).value[1].children) = 4
    /\ CheckedStmt(file).value[1].children[3].kind = "StringLiteral"
    /\ ~ \E member \in file.members["Foo"] :
            member.name = CheckedStmt(file).value[1].children[3].text

\* globals()["key"] = v with a key that names no symbol in scope
UnknownSymbol(file) ==
    /\ file.path = "globals.py"
    /\ ~ \E symbol \in CheckedStmt(file).scope :
            symbol.key = CheckedStmt(file).targets[1].children[2].text

\* r.attr with r neither an instance nor a type variable with an upper bound
UnresolvedReceiver(file) ==
    /\ file.path = "attribute.py"
    /\ LET receiver == inferred_type(CheckedStmt(file).value[1].children[1])
       IN  /\ receiver.t # "NominalInstance"
           /\ ~(receiver.t = "TypeVar" /\ receiver.args # <<>>)

Unresolved(file) ==
    \/ NoImplementation(file)
    \/ NoTupleShape(file)
    \/ UnknownMember(file)
    \/ UnknownSymbol(file)
    \/ UnresolvedReceiver(file)

\* the rules that need the type information
TypeRules ==
    {INVALID_FUNCTION_DEFAULTS, INVALID_SETATTR, MUTATING_GLOBALS_DICT,
     MANGLED_DUNDER_INSTANCE_VARIABLE}

\* C24: when the type information a rule needs cannot be resolved (no
\* implementation signature, a new __defaults__ value that is not None and
\* has no tuple shape, a setattr name that is no member, a globals() key
\* that names no symbol, an attribute receiver that is neither an instance
\* nor a bounded type variable), the rule reports nothing for the node, and
\* the check goes on: the statement after it is still checked.
C24_UnresolvedTypeInformationIsNoFinding ==
    \A k \in 1..Len(test_results) :
        LET file == test_input.files[k]
        IN  Unresolved(file) =>
              /\ \A rule \in TypeRules : WithId(TestResult(k), rule) = <<>>
              /\ is_enabled(selection, TYPING_ANY_USED) =>
                    CountAt(WithId(TestResult(k), TYPING_ANY_USED), <<503, 506>>) = 1

\* setattr(o, "missing", v): no finding, the next statement's Any reported,
\* and the run exits
C24_Witness ==
    /\ phase = "exited"
    /\ exit_status = Some("Success")
    /\ Len(test_input.files) = 1
    /\ UnknownMember(test_input.files[1])
    /\ is_enabled(selection, INVALID_SETATTR)
    /\ TestResult(1) # <<>>
    /\ \A n \in 1..Len(TestResult(1)) : TestResult(1)[n].id = TYPING_ANY_USED.name

(***************************************************************************)
(* C27                                                                     *)
(***************************************************************************)
\* setattr(o, "name", v) with three positional arguments, a string literal
\* as the second, and name among the members of o's type
KnownMember(file) ==
    /\ file.path = "setattr.py"
    /\ Len(CheckedStmt(file).value[1].children) = 4
    /\ CheckedStmt(file).value[1].children[3].kind = "StringLiteral"
    /\ \E member \in file.members["Foo"] :
          member.name = CheckedStmt(file).value[1].children[3].text

MemberType(file) ==
    (CHOOSE member \in file.members["Foo"] :
        member.name = CheckedStmt(file).value[1].children[3].text).ty

ValueType(file) == inferred_type(CheckedStmt(file).value[1].children[4])

\* C27: with invalid-setattr enabled, setattr(obj, "name", value) whose name
\* is a member of obj's type yields exactly one invalid-setattr diagnostic,
\* at the call, when value's type is not assignable to the member's type
\* with literals widened, and none when it is assignable.
C27_SetattrComparedWithWidenedMemberType ==
    \A k \in 1..Len(test_results) :
        LET file == test_input.files[k]
            invalid == WithId(TestResult(k), INVALID_SETATTR)
        IN  (KnownMember(file) /\ is_enabled(selection, INVALID_SETATTR)) =>
                IF is_assignable_to(ValueType(file), promote_literals(MemberType(file)))
                THEN invalid = <<>>
                ELSE /\ Len(invalid) = 1
                     /\ PrimaryRange(invalid[1]) = CheckedStmt(file).value[1].range

\* member x: str, setattr(o, "x", v) with v: int
C27_Witness ==
    /\ phase = "exited"
    /\ Len(test_input.files) = 1
    /\ KnownMember(test_input.files[1])
    /\ MemberType(test_input.files[1]) = StrT
    /\ ValueType(test_input.files[1]) = IntT
    /\ Len(WithId(TestResult(1), INVALID_SETATTR)) = 1

\* member x declared with a literal type, v: int: assignable once widened
C27_WidenedWitness ==
    /\ phase = "exited"
    /\ Len(test_input.files) = 1
    /\ KnownMember(test_input.files[1])
    /\ MemberType(test_input.files[1]) = IntLiteral
    /\ ValueType(test_input.files[1]) = IntT
    /\ is_enabled(selection, INVALID_SETATTR)
    /\ WithId(TestResult(1), INVALID_SETATTR) = <<>>

(***************************************************************************)
(* C25                                                                     *)
(***************************************************************************)
\* C25: with the rule enabled and the text readable, a comment is reported
\* as a directive exactly when its content (what follows the leading "# ",
\* without the whitespace around it) starts with a directive of the
\* vocabulary; a comment in which a directive occurs only later in the
\* text is not reported.
C25_ReportedExactlyWhenContentStartsWithDirective ==
    \A k \in 1..Len(test_results) :
        LET file == test_input.files[k]
            directives == WithId(TestResult(k), TYPE_CHECKING_DIRECTIVE_USED)
        IN  (file.readable /\ is_enabled(selection, TYPE_CHECKING_DIRECTIVE_USED)) =>
                \A c \in 1..Len(file.comments) :
                    (CountAt(directives, file.comments[c].range) > 0)
                        <=> \E directive \in Directives :
                               BeginsWithDirective(file.comments[c].text, directive)

(***************************************************************************)
(* C26                                                                     *)
(***************************************************************************)
IsNestedFile(file) == file.path = "nested.py"

\* the annotations a statement's own check looks at: those of its
\* parameters, its return annotation, its own annotation
OwnAnnotations(stmt) ==
    {stmt.params[i].annotation[1] :
        i \in {i \in 1..Len(stmt.params) : stmt.params[i].annotation # None}}
    \cup OptSet(stmt.returns) \cup OptSet(stmt.annotation)

\* the ranges a statement's own check reports at: its annotations and, for
\* the implementation of an overloaded function, the returns it collects
OwnRanges(file, stmt) ==
    {e.range : e \in OwnAnnotations(stmt)}
    \cup (IF stmt.kind = "FunctionDef" /\ file.functions[stmt.ty.name].overloads # <<>>
          THEN LET collected == get_return_statements(stmt)
               IN  {collected[n].range : n \in 1..Len(collected)}
          ELSE {})

\* the ranges the checks of the statements nested in a statement report at
InnerAnnotationRanges(stmt) ==
    UNION { {e.range : e \in OwnAnnotations(inner)} : inner \in Statements(stmt.body) }

C26_NestedWitness ==
    /\ phase = "exited"
    /\ Len(test_input.files) = 1
    /\ test_input.files[1] =
          NestedFile(FALSE,
              << ClassDef(Unplaced,
                     << NestedDef(Some(AnyName),
                            << NestedDef(Some(AnyName), <<AnyAssign>>), AnyAssign >>) >>),
                 AnyAssign >>)
    /\ Len(WithId(TestResult(1), TYPING_ANY_USED)) = 6

(***************************************************************************)
(* RuleSelection::enable and RuleSelection::disable called on the          *)
(* selection of a registry, any rule with any severity and source          *)
(***************************************************************************)
InitSelectionOps ==
    \E prog \in SelectionPrograms :
        /\ reg_calls = prog
        /\ builder = RunCalls(EmptyBuilder, prog)
        /\ registry = build(builder)
        /\ phase = "selecting"
        /\ selection = from_registry(registry)
        /\ applied = <<>>
        /\ config_diags = <<>>
        /\ NoCheck

\* selection.enable(rule, severity, source)
Enable(rule, sev, source) ==
    /\ Len(applied) < MaxOverrides
    /\ selection' = enable(selection, rule, sev, source)
    /\ applied' = Append(applied, [op |-> "enable", rule |-> rule,
                                   entry |-> Some(Entry(sev, source))])
    /\ UNCHANGED <<phase, builder, reg_calls, registry, config_diags>>
    /\ UNCHANGED cvars

\* selection.disable(rule)
Disable(rule) ==
    /\ Len(applied) < MaxOverrides
    /\ selection' = disable(selection, rule)
    /\ applied' = Append(applied, [op |-> "disable", rule |-> rule, entry |-> None])
    /\ UNCHANGED <<phase, builder, reg_calls, registry, config_diags>>
    /\ UNCHANGED cvars

NextSelectionOps ==
    \/ \E rule \in TestMetas, sev \in Severities, source \in RuleSources :
          Enable(rule, sev, source)
    \/ \E rule \in TestMetas : Disable(rule)

SelectionOpsSpec == InitSelectionOps /\ [][NextSelectionOps]_vars

(***************************************************************************)
(* C30                                                                     *)
(***************************************************************************)
\* the three queries agree on a selection
QueriesAgree(sel) ==
    \A x \in TestMetas :
        /\ is_enabled(sel, x) <=> IsSome(severity(sel, x))
        /\ IsSome(severity(sel, x)) <=> IsSome(SelGet(sel, x))
        /\ IsSome(SelGet(sel, x)) => severity(sel, x) = Some(SelGet(sel, x)[1][1])

\* C30: enable(r, s, src) and disable(r) change the entry of r only:
\* afterwards get(r) is Some((s, src)), respectively None, and get(x) is
\* what it was for every other rule x; in the selection before and after
\* the call is_enabled(x), severity(x) being Some and get(x) being Some
\* agree, and severity(x) is the first component of get(x).
C30_EnableDisableChangeOneEntry ==
    [][ LET call == applied'[Len(applied')]
        IN  /\ SelGet(selection', call.rule) = call.entry
            /\ \A x \in TestMetas \ {call.rule} :
                  SelGet(selection', x) = SelGet(selection, x)
            /\ QueriesAgree(selection)
            /\ QueriesAgree(selection')
      ]_vars

\* enable(C, Warning, Cli) over C's default entry, then disable(A): C has
\* the new entry, A has none, and the registry's other rules keep theirs
C30_Witness ==
    /\ Len(applied) = 2
    /\ applied[1] = [op |-> "enable", rule |-> TestMeta("C"),
                     entry |-> Some(Entry("Warning", "Cli"))]
    /\ applied[2] = [op |-> "disable", rule |-> TestMeta("A"), entry |-> None]
    /\ SelGet(from_registry(registry), TestMeta("C")) = Some(Entry("Error", "Default"))
    /\ SelGet(from_registry(registry), TestMeta("A")) = Some(Entry("Warning", "Default"))
    /\ SelGet(selection, TestMeta("C")) = Some(Entry("Warning", "Cli"))
    /\ SelGet(selection, TestMeta("A")) = None
    /\ ~is_enabled(selection, TestMeta("A"))
    /\ severity(selection, TestMeta("C")) = Some("Warning")

====
